---- MODULE Spec2Model ----
(***************************************************************************)
(* Model of dumbfi's tax-aware rebalancing engine (package finance) and of *)
(* its fee-only back-tester (package backtester).                          *)
(*                                                                         *)
(* float64 values are modelled as exact extended rationals: a record       *)
(* [n, d] with d > 0 in lowest terms is the number n/d; d = 0 stands for   *)
(* the IEEE specials +Inf (n = 1), -Inf (n = -1) and NaN (n = 0), which Go *)
(* produces on a division by zero.  Rounding is not modelled.              *)
(* time.Time values of the tax engine are whole hours since an epoch.      *)
(***************************************************************************)
EXTENDS Integers, Sequences, FiniteSets, TLC

\* ------------------------------------------------------------------------
\* float64 arithmetic (exact, with +Inf / -Inf / NaN)
\* ------------------------------------------------------------------------
AbsInt(i) == IF i < 0 THEN -i ELSE i

SignInt(i) == IF i < 0 THEN -1 ELSE IF i > 0 THEN 1 ELSE 0

RECURSIVE GCD(_, _)
GCD(a, b) == IF b = 0 THEN a ELSE GCD(b, a % b)

NaN == [n |-> 0, d |-> 0]

Inf(s) == [n |-> s, d |-> 0]

\* the number num/den, den # 0, in lowest terms with a positive denominator
Frac(num, den) ==
    LET g == GCD(AbsInt(num), AbsInt(den))
        s == IF den < 0 THEN -1 ELSE 1
    IN  [n |-> (s * num) \div g, d |-> (s * den) \div g]

R(i) == [n |-> i, d |-> 1]

Zero == R(0)

IsNaN(x) == x.d = 0 /\ x.n = 0

IsInf(x) == x.d = 0 /\ x.n # 0

IsFinite(x) == x.d > 0

FNeg(x) == [n |-> -x.n, d |-> x.d]

FAbs(x) == [n |-> AbsInt(x.n), d |-> x.d]

FAdd(x, y) ==
    IF IsNaN(x) \/ IsNaN(y) THEN NaN
    ELSE IF IsInf(x) /\ IsInf(y) THEN (IF x.n = y.n THEN x ELSE NaN)
    ELSE IF IsInf(x) THEN x
    ELSE IF IsInf(y) THEN y
    ELSE LET g == GCD(x.d, y.d)
         IN  Frac(x.n * (y.d \div g) + y.n * (x.d \div g), (x.d \div g) * y.d)

FSub(x, y) == FAdd(x, FNeg(y))

FMul(x, y) ==
    IF IsNaN(x) \/ IsNaN(y) THEN NaN
    ELSE IF IsInf(x) \/ IsInf(y)
         THEN (IF x.n = 0 \/ y.n = 0 THEN NaN ELSE Inf(SignInt(x.n) * SignInt(y.n)))
    ELSE LET a == Frac(x.n, y.d)
             b == Frac(y.n, x.d)
         IN  [n |-> a.n * b.n, d |-> a.d * b.d]

FDiv(x, y) ==
    IF IsNaN(x) \/ IsNaN(y) THEN NaN
    ELSE IF IsInf(x) THEN (IF IsInf(y) THEN NaN
                           ELSE IF y.n < 0 THEN Inf(-x.n) ELSE x)
    ELSE IF IsInf(y) THEN Zero
    ELSE IF y.n = 0 THEN (IF x.n = 0 THEN NaN ELSE Inf(SignInt(x.n)))
    ELSE LET a == Frac(x.n, y.n)
             b == Frac(y.d, x.d)
         IN  [n |-> a.n * b.n, d |-> a.d * b.d]

\* IEEE comparisons: every comparison with NaN is false
FLt(x, y) ==
    IF IsNaN(x) \/ IsNaN(y) THEN FALSE
    ELSE IF IsInf(x) THEN x.n < 0 /\ y # x
    ELSE IF IsInf(y) THEN y.n > 0
    ELSE x.n * y.d < y.n * x.d

FGt(x, y) == FLt(y, x)

FEq(x, y) == ~IsNaN(x) /\ ~IsNaN(y) /\ x = y

FLe(x, y) == FLt(x, y) \/ FEq(x, y)

RECURSIVE FSum(_)
FSum(s) == IF s = <<>> THEN Zero
           ELSE FAdd(FSum(SubSeq(s, 1, Len(s) - 1)), s[Len(s)])

\* ------------------------------------------------------------------------
\* package finance: tax lots, selectors, tax cost, rebalance
\* ------------------------------------------------------------------------
Front(s) == SubSeq(s, 1, Len(s) - 1)

\* TaxLot.Value
LotValue(lot, price) == FMul(lot.Shares, price)

\* TaxLot.TotalCost
TotalCost(lot) == FMul(lot.Shares, lot.CostBasis)

RECURSIVE HoldingValue(_, _)
HoldingValue(h, price) ==
    IF h.Lots = <<>> THEN Zero
    ELSE FAdd(HoldingValue([h EXCEPT !.Lots = Front(h.Lots)], price),
              LotValue(h.Lots[Len(h.Lots)], price))

\* prices[t] of a Go map: the zero value when the key is absent
PriceOf(prc, t) == IF t \in DOMAIN prc THEN prc[t] ELSE Zero

RECURSIVE PortfolioValue(_, _)
PortfolioValue(hs, prc) ==
    IF hs = <<>> THEN Zero
    ELSE LET h == hs[Len(hs)]
             rest == PortfolioValue(Front(hs), prc)
         IN  IF h.Ticker \in DOMAIN prc
             THEN FAdd(rest, HoldingValue(h, prc[h.Ticker]))
             ELSE rest

\* the comparison functions handed to sort.Slice
NewestFirstLess(a, b) == a.PurchaseDate > b.PurchaseDate

LowestCostLess(a, b) == FLt(a.CostBasis, b.CostBasis)

FIFOLess(a, b) == a.PurchaseDate < b.PurchaseDate

LIFOLess(a, b) == a.PurchaseDate > b.PurchaseDate

HighestCostLess(a, b) == FGt(a.CostBasis, b.CostBasis)

LessBy(kind, a, b) ==
    CASE kind = "FIFO" -> FIFOLess(a, b)
      [] kind = "LIFO" -> LIFOLess(a, b)
      [] kind = "HighestCostFirst" -> HighestCostLess(a, b)

\* sort.Slice on at most 12 elements is an insertion sort: each element in
\* turn is swapped towards the front while it is less than its predecessor
RECURSIVE InsertLot(_, _, _)
InsertLot(s, x, kind) ==
    IF s = <<>> THEN <<x>>
    ELSE IF LessBy(kind, x, s[Len(s)])
         THEN Append(InsertLot(Front(s), x, kind), s[Len(s)])
         ELSE Append(s, x)

RECURSIVE SortSlice(_, _)
SortSlice(s, kind) ==
    IF s = <<>> THEN <<>>
    ELSE InsertLot(SortSlice(Front(s), kind), s[Len(s)], kind)

\* A selector call: ret is the slice it returns, lots is what the caller's
\* slice (the backing array shared with the argument) holds afterwards.
SortInPlace(lots, kind) ==
    [ret |-> SortSlice(lots, kind), lots |-> SortSlice(lots, kind)]

SortCopy(lots, kind) == [ret |-> SortSlice(lots, kind), lots |-> lots]

FIFO(lots) == SortCopy(lots, "FIFO")

LIFO(lots) == SortCopy(lots, "LIFO")

HighestCostFirst(lots) == SortCopy(lots, "HighestCostFirst")

\* config.LotSelector(lots)
ApplySelector(sel, lots) ==
    CASE sel = "FIFO" -> FIFO(lots)
      [] sel = "LIFO" -> LIFO(lots)
      [] sel = "HighestCostFirst" -> HighestCostFirst(lots)

UnrealizedGain(lot, price) == FSub(LotValue(lot, price), TotalCost(lot))

IsLongTermInclusive(lot, asOf) == asOf - lot.PurchaseDate >= 365 * 24

IsLongTerm(lot, asOf) == asOf - lot.PurchaseDate > 365 * 24

TaxCost(lot, price, asOf, rates) ==
    IF IsLongTerm(lot, asOf)
    THEN FMul(UnrealizedGain(lot, price), rates.LongTerm)
    ELSE FMul(UnrealizedGain(lot, price), rates.ShortTerm)

DefaultTaxRates == [ShortTerm |-> Frac(35, 100), LongTerm |-> Frac(15, 100)]

\* the keys of a map in some order
RECURSIVE SetToSeq(_)
SetToSeq(S) ==
    IF S = {} THEN <<>>
    ELSE LET x == CHOOSE x \in S : TRUE IN <<x>> \o SetToSeq(S \ {x})

\* CurrentWeights, lines 104-116: a map from ticker to weight; the holdings
\* are visited in order and a later holding overwrites an earlier entry
RECURSIVE WeightsLoop(_, _, _, _)
WeightsLoop(hs, n, total, prc) ==
    IF n = 0 THEN <<>>
    ELSE LET weights == WeightsLoop(hs, n - 1, total, prc)
             h == hs[n]
         IN  IF h.Ticker \in DOMAIN prc
             THEN [t \in DOMAIN weights \cup {h.Ticker} |->
                     IF t = h.Ticker THEN FDiv(HoldingValue(h, prc[h.Ticker]), total)
                     ELSE weights[t]]
             ELSE weights

CurrentWeights(hs, prc) ==
    LET total == PortfolioValue(hs, prc)
    IN  IF FEq(total, Zero) THEN <<>> ELSE WeightsLoop(hs, Len(hs), total, prc)

\* Drift, lines 119-126
RECURSIVE DriftLoopTargetMinusCurrent(_, _, _)
DriftLoopTargetMinusCurrent(hs, n, current) ==
    IF n = 0 THEN <<>>
    ELSE LET drift == DriftLoopTargetMinusCurrent(hs, n - 1, current)
             h == hs[n]
         IN  [t \in DOMAIN drift \cup {h.Ticker} |->
                IF t = h.Ticker THEN FSub(h.TargetWeight, PriceOf(current, h.Ticker))
                ELSE drift[t]]

RECURSIVE DriftLoop(_, _, _)
DriftLoop(hs, n, current) ==
    IF n = 0 THEN <<>>
    ELSE LET drift == DriftLoop(hs, n - 1, current)
             h == hs[n]
         IN  [t \in DOMAIN drift \cup {h.Ticker} |->
                IF t = h.Ticker THEN FSub(PriceOf(current, h.Ticker), h.TargetWeight)
                ELSE drift[t]]

Drift(hs, prc) == DriftLoop(hs, Len(hs), CurrentWeights(hs, prc))

\* DriftCost, lines 129-136
DriftCost(hs, prc) ==
    LET drift == Drift(hs, prc)
        ts == SetToSeq(DOMAIN drift)
    IN  FSum([k \in DOMAIN ts |-> FMul(drift[ts[k]], drift[ts[k]])])

\* the loop of calculateSellTaxCost with every lot taken whole
RECURSIVE SellWalkWholeLots(_, _, _, _, _)
SellWalkWholeLots(sortedLots, price, remaining, totalTax, config) ==
    IF sortedLots = <<>> \/ FLe(remaining, Zero) THEN totalTax
    ELSE LET lot == Head(sortedLots)
         IN  SellWalkWholeLots(Tail(sortedLots), price, FSub(remaining, lot.Shares),
                               FAdd(totalTax, TaxCost(lot, price, config.AsOf,
                                                      config.TaxRates)),
                               config)

\* the loop of calculateSellTaxCost over the selector's ordered copy
RECURSIVE SellWalk(_, _, _, _, _)
SellWalk(sortedLots, price, remaining, totalTax, config) ==
    IF sortedLots = <<>> \/ FLe(remaining, Zero) THEN totalTax
    ELSE LET lot == Head(sortedLots)
             sellFromLot == IF FGt(lot.Shares, remaining) THEN remaining
                            ELSE lot.Shares
             partialLot == [Shares |-> sellFromLot, CostBasis |-> lot.CostBasis,
                            PurchaseDate |-> lot.PurchaseDate]
         IN  SellWalk(Tail(sortedLots), price, FSub(remaining, sellFromLot),
                      FAdd(totalTax, TaxCost(partialLot, price, config.AsOf,
                                             config.TaxRates)),
                      config)

\* tax is the returned total; lots is the holding's lot slice after the call
calculateSellTaxCost(h, price, sharesToSell, config) ==
    LET sel == ApplySelector(config.LotSelector, h.Lots)
    IN  [tax |-> SellWalk(sel.ret, price, sharesToSell, Zero, config),
         lots |-> sel.lots]

BuyTradeSwapped(h, diff, price) ==
    [Ticker |-> h.Ticker, Shares |-> diff, Amount |-> FDiv(diff, price),
     TaxCost |-> Zero]

BuyTrade(h, diff, price) ==
    [Ticker |-> h.Ticker, Shares |-> FDiv(diff, price), Amount |-> diff,
     TaxCost |-> Zero]

SellTradeUnsigned(h, diff, price, config) ==
    [Ticker |-> h.Ticker, Shares |-> FDiv(FNeg(diff), price), Amount |-> diff,
     TaxCost |-> calculateSellTaxCost(h, price, FDiv(FNeg(diff), price), config).tax]

\* a sell trade cut down to the shares the lots hold
SellTradeFilled(h, diff, price, config) ==
    LET sellShares == FDiv(FNeg(diff), price)
        held == FSum([k \in DOMAIN h.Lots |-> h.Lots[k].Shares])
        filled == IF FGt(sellShares, held) THEN held ELSE sellShares
    IN  [Ticker |-> h.Ticker, Shares |-> FNeg(filled), Amount |-> diff,
         TaxCost |-> calculateSellTaxCost(h, price, filled, config).tax]

SellTrade(h, diff, price, config) ==
    LET sellAmount == FNeg(diff)
        sellShares == FDiv(sellAmount, price)
    IN  [Ticker |-> h.Ticker, Shares |-> FNeg(sellShares),
         Amount |-> FNeg(sellAmount),
         TaxCost |-> calculateSellTaxCost(h, price, sellShares, config).tax]

\* the skip test of Rebalance's loop
BelowMinTradeInclusive(diff, config) == FLe(FAbs(diff), config.MinTradeSize)

BelowMinTrade(diff, config) == FLt(FAbs(diff), config.MinTradeSize)

\* the body of Rebalance's loop for holdings[i]: acc.trades are the trades
\* appended so far, acc.holdings the caller's holdings as they now stand
RebalanceOne(acc, i, total, prc, config) ==
    LET h == acc.holdings[i]
        price == PriceOf(prc, h.Ticker)
        currentValue == HoldingValue(h, price)
        targetValue == FMul(total, h.TargetWeight)
        diff == FSub(targetValue, currentValue)
    IN  IF BelowMinTrade(diff, config) THEN acc
        ELSE IF FGt(diff, Zero)
             THEN [acc EXCEPT !.trades = Append(@, BuyTrade(h, diff, price))]
             ELSE [trades |-> Append(acc.trades, SellTrade(h, diff, price, config)),
                   holdings |-> [acc.holdings EXCEPT ![i].Lots =
                       calculateSellTaxCost(h, price, FDiv(FNeg(diff), price),
                                            config).lots]]

RECURSIVE RebalanceLoop(_, _, _, _, _)
RebalanceLoop(hs, n, total, prc, config) ==
    IF n = 0 THEN [trades |-> <<>>, holdings |-> hs]
    ELSE RebalanceOne(RebalanceLoop(hs, n - 1, total, prc, config), n, total,
                      prc, config)

RebalanceIgnoringZeroTotal(hs, prc, config) ==
    RebalanceLoop(hs, Len(hs), PortfolioValue(hs, prc), prc, config)

\* trades is the returned slice (nil is the empty sequence); holdings is the
\* caller's holdings slice after the call
Rebalance(hs, prc, config) ==
    LET total == PortfolioValue(hs, prc)
    IN  IF FEq(total, Zero) THEN [trades |-> <<>>, holdings |-> hs]
        ELSE RebalanceLoop(hs, Len(hs), total, prc, config)

\* ------------------------------------------------------------------------
\* State of the tax-aware engine's caller.  A behaviour is one call on the
\* caller's inputs: op = "none" until the call has been made, and the
\* functions called keep no state of their own between calls.
\* ------------------------------------------------------------------------
VARIABLES holdings, prices, config, op, arg, trades, sorted, tax

taxVars == <<holdings, prices, config, op, arg, trades, sorted, tax>>

\* state of the back-tester and of its caller (below)
VARIABLES p, pc, loc, ret, dataSets

btVars == <<p, pc, loc, ret, dataSets>>

\* math/rand's default Source, shared by the whole process, and the
\* goroutines that build price data and run a back-test of their own
VARIABLES rng, gen

genVars == <<rng, gen>>

\* a call of one of the packages' functions: its name, its arguments and
\* what it returned
VARIABLES fn, input, output

callVars == <<fn, input, output>>

\* a call of the price client's GetPrices: its frame, the goroutines it
\* started and its two channels
VARIABLES getPrices, fetchers, resultChan, errorChan

netVars == <<getPrices, fetchers, resultChan, errorChan>>

MaxLots == 2

AsOfHour == 3 * 365 * 24

PurchaseDates == {AsOfHour - 2 * 365 * 24, AsOfHour - 365 * 24,
                  AsOfHour - 182 * 24}

LotSet == [Shares : {R(10)}, CostBasis : {R(30), R(90)},
           PurchaseDate : PurchaseDates]

SeqsUpTo(S, n) == UNION {[1..k -> S] : k \in 0..n}

BondLot == [Shares |-> R(10), CostBasis |-> R(40),
            PurchaseDate |-> AsOfHour - 2 * 365 * 24]

WeightPairs == {<<Frac(3, 5), Frac(2, 5)>>, <<Frac(2, 5), Frac(3, 5)>>,
                <<R(1), R(0)>>, <<Frac(1, 2), Frac(1, 4)>>}

PriceMaps == {[t \in T |-> IF t = "VTI" THEN vti ELSE R(50)] :
                 T \in {{"BND"}, {"VTI", "BND"}}, vti \in {R(60), R(200)}}

Selectors == {"FIFO", "LIFO", "HighestCostFirst"}

MinTradeSizes == {R(0), R(500)}

NoArg == [h |-> 0, l |-> 0]

InitTax ==
    /\ \E vl \in SeqsUpTo(LotSet, MaxLots), bl \in {<<>>, <<BondLot>>},
          w \in WeightPairs :
         holdings = << [Ticker |-> "VTI", TargetWeight |-> w[1], Lots |-> vl],
                       [Ticker |-> "BND", TargetWeight |-> w[2], Lots |-> bl] >>
    /\ prices \in PriceMaps
    /\ \E sel \in Selectors, mts \in MinTradeSizes :
         config = [TaxRates |-> DefaultTaxRates, LotSelector |-> sel,
                   AsOf |-> AsOfHour, MinTradeSize |-> mts]
    /\ op = "none"
    /\ arg = NoArg
    /\ trades = <<>>
    /\ sorted = <<>>
    /\ tax = Zero

\* the caller applies the configured selector to one holding's lots
CallSelector ==
    /\ op = "none"
    /\ \E i \in 1..Len(holdings) :
        LET r == ApplySelector(config.LotSelector, holdings[i].Lots)
        IN  /\ op' = "Selector"
            /\ arg' = [h |-> i, l |-> 0]
            /\ sorted' = r.ret
            /\ holdings' = [holdings EXCEPT ![i].Lots = r.lots]
            /\ UNCHANGED <<prices, config, trades, tax, btVars, genVars, callVars, netVars>>

\* the caller asks for the tax cost of selling one whole lot at today's price
CallTaxCost ==
    /\ op = "none"
    /\ \E i \in 1..Len(holdings) :
        \E j \in 1..Len(holdings[i].Lots) :
          /\ op' = "TaxCost"
          /\ arg' = [h |-> i, l |-> j]
          /\ tax' = TaxCost(holdings[i].Lots[j],
                            PriceOf(prices, holdings[i].Ticker),
                            config.AsOf, config.TaxRates)
          /\ UNCHANGED <<holdings, prices, config, trades, sorted, btVars, genVars, callVars, netVars>>

\* the caller rebalances its holdings at today's prices
CallRebalance ==
    /\ op = "none"
    /\ LET r == Rebalance(holdings, prices, config)
       IN  /\ op' = "Rebalance"
           /\ arg' = NoArg
           /\ trades' = r.trades
           /\ holdings' = r.holdings
           /\ UNCHANGED <<prices, config, sorted, tax, btVars, genVars, callVars, netVars>>

NextTax == CallSelector \/ CallTaxCost \/ CallRebalance

\* ------------------------------------------------------------------------
\* package backtester: Portfolio, MonthlyRebalancer, SetPriceData, Run
\* ------------------------------------------------------------------------
\* A time.Time of the back-tester is a civil date [y, m, d] at midnight UTC.
IsLeap(y) == y % 4 = 0 /\ (y % 100 # 0 \/ y % 400 = 0)

DaysIn(y, m) ==
    IF m = 2 THEN (IF IsLeap(y) THEN 29 ELSE 28)
    ELSE IF m \in {4, 6, 9, 11} THEN 30 ELSE 31

\* date.AddDate(0, 0, 1): the next day, normalised
NextDay(date) ==
    IF date.d + 1 <= DaysIn(date.y, date.m) THEN [date EXCEPT !.d = date.d + 1]
    ELSE IF date.m = 12 THEN [y |-> date.y + 1, m |-> 1, d |-> 1]
    ELSE [y |-> date.y, m |-> date.m + 1, d |-> 1]

Month(date) == date.m

DateBefore(a, b) ==
    \/ a.y < b.y
    \/ a.y = b.y /\ a.m < b.m
    \/ a.y = b.y /\ a.m = b.m /\ a.d < b.d

\* a map value: nil, or the map m
NilMap == [isNil |-> TRUE, m |-> <<>>]

MapOf(f) == [isNil |-> FALSE, m |-> f]

\* the closure returned by MonthlyRebalancer(targetWeights)
MonthlyFiresOnDayChange(targetWeights, date) ==
    IF NextDay(date).d # date.d THEN MapOf(targetWeights) ELSE NilMap

MonthlyRebalancer(targetWeights, date) ==
    IF Month(NextDay(date)) # Month(date) THEN MapOf(targetWeights) ELSE NilMap

\* p.Rebalancer(p, date) for the policies the model plugs in: the package's
\* monthly policy, one that never fires, one that fires every day, and one
\* that fires every day with weights for AAPL alone except at a month's end
CallRebalancer(q, date) ==
    CASE q.Rebalancer.kind = "monthly" ->
           MonthlyRebalancer(q.Rebalancer.targetWeights, date)
      [] q.Rebalancer.kind = "never" -> NilMap
      [] q.Rebalancer.kind = "always" -> MapOf(q.Rebalancer.targetWeights)
      [] q.Rebalancer.kind = "mixed" ->
           IF Month(NextDay(date)) # Month(date) THEN MapOf(q.Rebalancer.targetWeights)
           ELSE MapOf([s \in {"AAPL"} |-> Frac(1, 2)])

NoPriceData == [Dates |-> <<>>, Prices |-> <<>>]

NewPortfolio(assets, initialCash, fees, rebalancer) ==
    [Assets |-> assets,
     InitCash |-> initialCash,
     Fees |-> fees,
     PriceData |-> NoPriceData,
     Cash |-> <<initialCash>>,
     Value |-> <<initialCash>>,
     Weights |-> << [a \in {assets[k].Symbol : k \in DOMAIN assets} |->
                       (LET k == CHOOSE k \in DOMAIN assets : assets[k].Symbol = a
                        IN  assets[k].Weight)] >>,
     Holdings |-> [a \in {assets[k].Symbol : k \in DOMAIN assets} |-> Zero],
     Dates |-> <<>>,
     Rebalancer |-> rebalancer]

\* p.PriceData.Prices[symbol][i] is in range (i counts from 1 here)
HasPrice(pd, symbol, i) ==
    symbol \in DOMAIN pd.Prices /\ i <= Len(pd.Prices[symbol])

\* a map read: the zero value when the key is absent
QtyOf(hold, symbol) == IF symbol \in DOMAIN hold THEN hold[symbol] ELSE Zero

\* sum of f[x] over DOMAIN f
SumOver(f) == LET q == SetToSeq(DOMAIN f) IN FSum([k \in DOMAIN q |-> f[q[k]]])

\* the trades of a day with the fee charged on the signed trade cost
RebalanceStepSignedFee(q, i, currCash, currHoldings, rebWeights) ==
    LET priceOf(s) == q.PriceData.Prices[s][i]
        portfolioValue ==
            FAdd(currCash,
                 FSum([k \in DOMAIN q.Assets |->
                         FMul(QtyOf(currHoldings, q.Assets[k].Symbol),
                              priceOf(q.Assets[k].Symbol))]))
        target(s) == FDiv(FMul(portfolioValue, rebWeights[s]), priceOf(s))
        tradeCost(s) == FMul(priceOf(s), FSub(target(s), QtyOf(currHoldings, s)))
        ws == SetToSeq(DOMAIN rebWeights)
    IN  [currCash |->
            FSub(currCash,
                 FSum([k \in DOMAIN ws |->
                         FAdd(tradeCost(ws[k]), FMul(q.Fees, tradeCost(ws[k])))])),
         currHoldings |->
            [s \in DOMAIN currHoldings \cup DOMAIN rebWeights |->
                IF s \in DOMAIN rebWeights THEN target(s) ELSE currHoldings[s]]]

\* Run, lines 94-119: the trades of a day on which the policy returned
\* rebWeights; gives the cash and holdings after them
RebalanceStep(q, i, currCash, currHoldings, rebWeights) ==
    LET priceOf(s) == q.PriceData.Prices[s][i]
        portfolioValue ==
            FAdd(currCash,
                 SumOver([s \in DOMAIN currHoldings |-> FMul(currHoldings[s], priceOf(s))]))
        targetPositions ==
            [s \in DOMAIN rebWeights |->
                FDiv(FMul(portfolioValue, rebWeights[s]), priceOf(s))]
        diffQty(s) == FSub(targetPositions[s], QtyOf(currHoldings, s))
        traded == {s \in DOMAIN targetPositions : ~FEq(diffQty(s), Zero)}
        tradeCost(s) == FMul(priceOf(s), diffQty(s))
        feeCost(s) == FMul(q.Fees, FAbs(tradeCost(s)))
    IN  [currCash |->
            FSub(currCash,
                 SumOver([s \in traded |-> FAdd(tradeCost(s), feeCost(s))])),
         currHoldings |->
            [s \in DOMAIN currHoldings \cup traded |->
                IF s \in traded THEN targetPositions[s] ELSE currHoldings[s]]]

\* a valuation loop that keeps the last asset's value as the total
RECURSIVE ValueWalkLastAsset(_, _, _, _, _, _)
ValueWalkLastAsset(q, i, currHoldings, order, totalValue, weights) ==
    IF order = <<>> THEN [totalValue |-> totalValue, weights |-> weights]
    ELSE LET symbol == Head(order)
             assetValue == FMul(currHoldings[symbol], q.PriceData.Prices[symbol][i])
         IN  ValueWalkLastAsset(q, i, currHoldings, Tail(order), assetValue,
                       [s \in DOMAIN weights \cup {symbol} |->
                           IF s = symbol THEN FDiv(assetValue, assetValue)
                           ELSE weights[s]])

\* Run, lines 121-128: the valuation loop, visiting currHoldings in order
RECURSIVE ValueWalk(_, _, _, _, _, _)
ValueWalk(q, i, currHoldings, order, totalValue, weights) ==
    IF order = <<>> THEN [totalValue |-> totalValue, weights |-> weights]
    ELSE LET symbol == Head(order)
             assetValue == FMul(currHoldings[symbol], q.PriceData.Prices[symbol][i])
             total == FAdd(totalValue, assetValue)
         IN  ValueWalk(q, i, currHoldings, Tail(order), total,
                       [s \in DOMAIN weights \cup {symbol} |->
                           IF s = symbol THEN FDiv(assetValue, total)
                           ELSE weights[s]])

Orders(S) == {q \in [1..Cardinality(S) -> S] : \A a, b \in DOMAIN q : a # b => q[a] # q[b]}

\* the portfolio after a Run that found no dates
RunFailCommitsLocals(q) ==
    [q EXCEPT !.Value = <<q.InitCash>>, !.Cash = <<q.InitCash>>,
              !.Weights = <<q.Weights[1]>>, !.Dates = <<>>]

AfterEmptyRun(q) == q

NoLocals == [i |-> 0, currCash |-> Zero, currHoldings |-> <<>>, values |-> <<>>,
             cashValues |-> <<>>, allWeights |-> <<>>, dates |-> <<>>,
             rebWeights |-> NilMap]

NoReturn == [result |-> "none", err |-> "none"]

MaxDates == 3

Date(y, m, d) == [y |-> y, m |-> m, d |-> d]

\* the trading days a series may contain, in ascending order
DateChoices == << Date(2020, 1, 30), Date(2020, 1, 31), Date(2020, 2, 28),
                  Date(2020, 2, 29), Date(2020, 12, 31), Date(2021, 2, 28) >>

\* ascending, duplicate-free date sequences of at most MaxDates dates
DateSeqs ==
    LET n == Len(DateChoices)
        Idx == UNION {{q \in [1..k -> 1..n] : \A a \in 1..(k - 1) : q[a] < q[a + 1]} :
                         k \in 0..MaxDates}
    IN  {[k \in DOMAIN q |-> DateChoices[q[k]]] : q \in Idx}

PricePath(kind, symbol, n) ==
    [k \in 1..n |->
        CASE kind = "flat" -> R(2)
          [] kind = "swing" /\ symbol = "AAPL" -> IF k % 2 = 1 THEN R(1) ELSE R(2)
          [] kind = "swing" /\ symbol = "MSFT" -> IF k % 2 = 1 THEN R(4) ELSE R(2)
          [] kind = "crash" -> IF k = 1 THEN R(10) ELSE R(1)]

\* price data over the dates ds; "short" data lacks MSFT's last price
MakePriceData(ds, kind, shape) ==
    [Dates |-> ds,
     Prices |-> [s \in {"AAPL", "MSFT"} |->
                   IF shape = "short" /\ s = "MSFT" /\ Len(ds) > 0
                   THEN PricePath(kind, s, Len(ds) - 1)
                   ELSE PricePath(kind, s, Len(ds))]]

PriceDataChoices ==
    {MakePriceData(ds, kind, shape) :
        ds \in DateSeqs, kind \in {"flat", "swing", "crash"}, shape \in {"aligned", "short"}}

AssetList == << [Symbol |-> "AAPL", Weight |-> Frac(3, 5)],
                [Symbol |-> "MSFT", Weight |-> Frac(2, 5)] >>

FullTargets == [s \in {"AAPL", "MSFT"} |-> IF s = "AAPL" THEN Frac(3, 5) ELSE Frac(2, 5)]

PartTargets == [s \in {"AAPL"} |-> Frac(1, 2)]

RebalancerChoices ==
    {[kind |-> "monthly", targetWeights |-> FullTargets],
     [kind |-> "monthly", targetWeights |-> PartTargets],
     [kind |-> "never", targetWeights |-> FullTargets],
     [kind |-> "always", targetWeights |-> FullTargets],
     [kind |-> "mixed", targetWeights |-> FullTargets]}

CashAndFees == {<<R(100), Zero>>, <<R(100), Frac(1, 10)>>, <<Zero, Zero>>}

InitBacktestIdle ==
    /\ p = NewPortfolio(AssetList, Zero, Zero,
                        [kind |-> "never", targetWeights |-> FullTargets])
    /\ pc = "idle"
    /\ loc = NoLocals
    /\ ret = NoReturn
    /\ dataSets = {}

\* the caller builds a portfolio; it owns one price data set and an empty one
InitRun ==
    /\ \E cf \in CashAndFees, rb \in RebalancerChoices :
         p = NewPortfolio(AssetList, cf[1], cf[2], rb)
    /\ pc = "idle"
    /\ loc = NoLocals
    /\ ret = NoReturn
    /\ \E pd \in PriceDataChoices : dataSets = {pd, MakePriceData(<<>>, "flat", "aligned")}

\* Run and SetPriceData may be called whenever no Run is in progress; a panic
\* ends the program
Callable == pc \in {"idle", "done", "failed"}

SetPriceData ==
    /\ Callable
    /\ \E priceData \in dataSets :
         /\ priceData # p.PriceData
         /\ p' = [p EXCEPT !.PriceData = priceData]
    /\ pc' = "idle"
    /\ UNCHANGED <<loc, ret, dataSets, taxVars, genVars, callVars, netVars>>

\* Run, lines 76-78: no dates
RunEmpty ==
    /\ Callable
    /\ Len(p.PriceData.Dates) = 0
    /\ p' = AfterEmptyRun(p)
    /\ pc' = "failed"
    /\ ret' = [result |-> "nil", err |-> "price data is empty"]
    /\ UNCHANGED <<loc, dataSets, taxVars, genVars, callVars, netVars>>

\* Run, lines 80-89: the locals before the first day
RunStart ==
    /\ Callable
    /\ Len(p.PriceData.Dates) # 0
    /\ loc' = [i |-> 1,
               currCash |-> p.InitCash,
               currHoldings |-> [a \in {p.Assets[k].Symbol : k \in DOMAIN p.Assets} |-> Zero],
               values |-> <<p.InitCash>>,
               cashValues |-> <<p.InitCash>>,
               allWeights |-> <<p.Weights[1]>>,
               dates |-> <<>>,
               rebWeights |-> NilMap]
    /\ pc' = "policy"
    /\ ret' = NoReturn
    /\ UNCHANGED <<p, dataSets, taxVars, genVars, callVars, netVars>>

\* a loop that may ask the policy about the same day again
RunPolicyAgain ==
    /\ pc = "policy"
    /\ loc' = [loc EXCEPT !.rebWeights = CallRebalancer(p, p.PriceData.Dates[loc.i])]
    /\ pc' \in {"policy", "trade"}
    /\ UNCHANGED <<p, ret, dataSets, taxVars, genVars, callVars, netVars>>

\* Run, line 92: ask the policy about day loc.i
RunPolicy ==
    /\ pc = "policy"
    /\ loc' = [loc EXCEPT !.rebWeights = CallRebalancer(p, p.PriceData.Dates[loc.i])]
    /\ pc' = "trade"
    /\ UNCHANGED <<p, ret, dataSets, taxVars, genVars, callVars, netVars>>

PricesInRange(symbols) == \A s \in symbols : HasPrice(p.PriceData, s, loc.i)

\* Run, lines 94-119: the day's trades, if the policy returned weights; an
\* index out of range panics
RunTrade ==
    /\ pc = "trade"
    /\ IF loc.rebWeights.isNil THEN
          /\ pc' = "value"
          /\ UNCHANGED loc
       ELSE IF PricesInRange(DOMAIN loc.currHoldings \cup DOMAIN loc.rebWeights.m) THEN
          LET r == RebalanceStep(p, loc.i, loc.currCash, loc.currHoldings,
                                 loc.rebWeights.m)
          IN  /\ loc' = [loc EXCEPT !.currCash = r.currCash,
                                    !.currHoldings = r.currHoldings]
              /\ pc' = "value"
       ELSE
          /\ pc' = "panic"
          /\ loc' = NoLocals
    /\ UNCHANGED <<p, ret, dataSets, taxVars, genVars, callVars, netVars>>

\* Run, lines 121-133: value the day and append it to the histories; the
\* holdings map is visited in an arbitrary order
RunValue ==
    /\ pc = "value"
    /\ IF PricesInRange(DOMAIN loc.currHoldings) THEN
          \E order \in Orders(DOMAIN loc.currHoldings) :
             LET v == ValueWalk(p, loc.i, loc.currHoldings, order, loc.currCash, <<>>)
             IN  /\ loc' = [loc EXCEPT !.values = Append(@, v.totalValue),
                                       !.cashValues = Append(@, loc.currCash),
                                       !.allWeights = Append(@, v.weights),
                                       !.dates = Append(@, p.PriceData.Dates[loc.i]),
                                       !.i = @ + 1]
                 /\ pc' = IF loc.i = Len(p.PriceData.Dates) THEN "commit" ELSE "policy"
       ELSE
          /\ pc' = "panic"
          /\ loc' = NoLocals
    /\ UNCHANGED <<p, ret, dataSets, taxVars, genVars, callVars, netVars>>

\* a commit that stores the histories without their first entries
RunCommitDropsStart ==
    /\ pc = "commit"
    /\ p' = [p EXCEPT !.Value = Tail(loc.values), !.Cash = Tail(loc.cashValues),
                      !.Weights = Tail(loc.allWeights), !.Dates = loc.dates]
    /\ ret' = [result |-> "p", err |-> "nil"]
    /\ pc' = "done"
    /\ loc' = NoLocals
    /\ UNCHANGED <<dataSets, taxVars, genVars, callVars, netVars>>

\* Run, lines 136-143: store the histories and return the result
RunCommit ==
    /\ pc = "commit"
    /\ p' = [p EXCEPT !.Value = loc.values, !.Cash = loc.cashValues,
                      !.Weights = loc.allWeights, !.Dates = loc.dates]
    /\ ret' = [result |-> "p", err |-> "nil"]
    /\ pc' = "done"
    /\ loc' = NoLocals
    /\ UNCHANGED <<dataSets, taxVars, genVars, callVars, netVars>>

NextRun ==
    \/ SetPriceData \/ RunEmpty \/ RunStart \/ RunPolicy \/ RunTrade \/ RunValue
    \/ RunCommit

\* ------------------------------------------------------------------------
\* GenerateDummyPriceData, and goroutines that each build price data and run
\* a back-test on a portfolio of their own
\* ------------------------------------------------------------------------
\* rng is the state of math/rand's default Source: the number of variates
\* drawn since rand.Seed(42).  The variates of that stream are a fixed
\* sequence; NormStream stands for its first values.
NormStream == << R(1), R(-1), R(2), R(-2) >>

\* rand.NormFloat64() on the default Source: the variate and the state after
NormFloat64(state) == [value |-> NormStream[state + 1], state |-> state + 1]

\* lines 223-226: the dates from d to endDate, a day apart
RECURSIVE GenDateLoopExclusive(_, _, _)
GenDateLoopExclusive(d, endDate, dates) ==
    IF ~DateBefore(d, endDate) THEN dates
    ELSE GenDateLoopExclusive(NextDay(d), endDate, Append(dates, d))

RECURSIVE GenDateLoop(_, _, _)
GenDateLoop(d, endDate, dates) ==
    IF DateBefore(endDate, d) THEN dates
    ELSE GenDateLoop(NextDay(d), endDate, Append(dates, d))

\* lines 234-235: the next price of a series
NextPrice(price, variate) ==
    LET dailyReturn == FAdd(FMul(variate, Frac(1, 100)), Frac(1, 10000))
    IN  FMul(price, FAdd(R(1), dailyReturn))

\* Run, lines 80-134, on aligned data with the holdings visited in a fixed
\* order: the histories after the days i..n
RECURSIVE RunDays(_, _, _)
RunDays(q, i, l) ==
    IF i > Len(q.PriceData.Dates) THEN l
    ELSE LET rebWeights == CallRebalancer(q, q.PriceData.Dates[i])
             r == IF rebWeights.isNil
                  THEN [currCash |-> l.currCash, currHoldings |-> l.currHoldings]
                  ELSE RebalanceStep(q, i, l.currCash, l.currHoldings, rebWeights.m)
             v == ValueWalk(q, i, r.currHoldings, SetToSeq(DOMAIN r.currHoldings),
                            r.currCash, <<>>)
         IN  RunDays(q, i + 1,
                     [currCash |-> r.currCash,
                      currHoldings |-> r.currHoldings,
                      values |-> Append(l.values, v.totalValue),
                      cashValues |-> Append(l.cashValues, r.currCash),
                      allWeights |-> Append(l.allWeights, v.weights),
                      dates |-> Append(l.dates, q.PriceData.Dates[i])])

\* Run, lines 75-144: the portfolio after a whole Run
RunAll(q) ==
    IF Len(q.PriceData.Dates) = 0 THEN q
    ELSE LET l == RunDays(q, 1,
                     [currCash |-> q.InitCash,
                      currHoldings |-> [a \in {q.Assets[k].Symbol : k \in DOMAIN q.Assets} |-> Zero],
                      values |-> <<q.InitCash>>,
                      cashValues |-> <<q.InitCash>>,
                      allWeights |-> <<q.Weights[1]>>,
                      dates |-> <<>>])
         IN  [q EXCEPT !.Value = l.values, !.Cash = l.cashValues,
                       !.Weights = l.allWeights, !.Dates = l.dates]

Workers == {"w1", "w2"}

GenAssets == <<"AAPL">>

\* the [startDate, endDate] a goroutine asks for; the last has no day in it
GenRanges ==
    { <<Date(2020, 1, 1), Date(2020, 1, 1)>>,
      <<Date(2020, 2, 28), Date(2020, 3, 1)>>,
      <<Date(2021, 2, 27), Date(2021, 3, 1)>>,
      <<Date(2020, 12, 31), Date(2021, 1, 2)>>,
      <<Date(2020, 1, 2), Date(2020, 1, 1)>> }

\* the portfolio of a goroutine: all in its one asset from the first day on
GenPortfolio ==
    NewPortfolio(<< [Symbol |-> "AAPL", Weight |-> R(1)] >>, R(100), Zero,
                 [kind |-> "always", targetWeights |-> [s \in {"AAPL"} |-> Frac(1, 2)]])

NoWorker ==
    [pc |-> "call", assets |-> <<>>, startDate |-> Date(2020, 1, 1),
     endDate |-> Date(2020, 1, 1), dates |-> <<>>, a |-> 0, prices |-> <<>>, i |-> 0,
     priceMap |-> <<>>, data |-> NoPriceData, q |-> GenPortfolio]

InitGenIdle ==
    /\ rng = 0
    /\ gen = [w \in Workers |-> NoWorker]

InitGen ==
    /\ rng = 0
    /\ \E ranges \in [Workers -> GenRanges] :
         gen = [w \in Workers |->
                  [NoWorker EXCEPT !.assets = GenAssets,
                                   !.startDate = ranges[w][1],
                                   !.endDate = ranges[w][2]]]

\* line 221: rand.Seed(42)
GenSeed ==
    \E w \in Workers :
      /\ gen[w].pc = "call"
      /\ gen[w].assets # <<>>
      /\ rng' = 0
      /\ gen' = [gen EXCEPT ![w].pc = "dates"]
      /\ UNCHANGED <<taxVars, btVars, callVars, netVars>>

\* lines 223-228: the dates and the empty price map
GenDates ==
    \E w \in Workers :
      /\ gen[w].pc = "dates"
      /\ gen' = [gen EXCEPT ![w].dates = GenDateLoop(gen[w].startDate, gen[w].endDate, <<>>),
                            ![w].a = 1,
                            ![w].pc = "asset"]
      /\ UNCHANGED <<rng, taxVars, btVars, callVars, netVars>>

\* lines 229-231 for the next asset, or lines 240-244 when none is left;
\* prices[0] of an empty slice panics
GenAsset ==
    \E w \in Workers :
      /\ gen[w].pc = "asset"
      /\ gen' =
           IF gen[w].a > Len(gen[w].assets) THEN
              [gen EXCEPT ![w].data = [Dates |-> gen[w].dates, Prices |-> gen[w].priceMap],
                          ![w].pc = "built"]
           ELSE IF Len(gen[w].dates) = 0 THEN
              [gen EXCEPT ![w].pc = "panic"]
           ELSE
              [gen EXCEPT ![w].prices = [k \in 1..Len(gen[w].dates) |->
                                           IF k = 1 THEN R(100) ELSE Zero],
                          ![w].i = 2,
                          ![w].pc = "draw"]
      /\ UNCHANGED <<rng, taxVars, btVars, callVars, netVars>>

\* lines 233-238: one turn of the inner loop, which draws from the default
\* Source, or the end of the loop
GenDraw ==
    \E w \in Workers :
      /\ gen[w].pc = "draw"
      /\ IF gen[w].i <= Len(gen[w].dates) THEN
            LET r == NormFloat64(rng)
            IN  /\ rng' = r.state
                /\ gen' = [gen EXCEPT
                             ![w].prices[gen[w].i] =
                                 NextPrice(gen[w].prices[gen[w].i - 1], r.value),
                             ![w].i = @ + 1]
         ELSE
            /\ rng' = rng
            /\ gen' = [gen EXCEPT
                         ![w].priceMap =
                             [s \in DOMAIN gen[w].priceMap \cup {gen[w].assets[gen[w].a]} |->
                                 IF s = gen[w].assets[gen[w].a] THEN gen[w].prices
                                 ELSE gen[w].priceMap[s]],
                         ![w].a = @ + 1,
                         ![w].pc = "asset"]
      /\ UNCHANGED <<taxVars, btVars, callVars, netVars>>

\* the goroutine hands the data it built to its own portfolio
GenSetPriceData ==
    \E w \in Workers :
      /\ gen[w].pc = "built"
      /\ gen' = [gen EXCEPT ![w].q.PriceData = gen[w].data, ![w].pc = "set"]
      /\ UNCHANGED <<rng, taxVars, btVars, callVars, netVars>>

\* and runs it
GenRun ==
    \E w \in Workers :
      /\ gen[w].pc = "set"
      /\ gen' = [gen EXCEPT ![w].q = RunAll(gen[w].q), ![w].pc = "ran"]
      /\ UNCHANGED <<rng, taxVars, btVars, callVars, netVars>>

NextGen == GenSeed \/ GenDates \/ GenAsset \/ GenDraw \/ GenSetPriceData \/ GenRun

\* ------------------------------------------------------------------------
\* BacktestResult.Stats, calcStdDev, calcMaxDrawdown
\* ------------------------------------------------------------------------
\* math.Pow and math.Sqrt are not rational: a float64 computed through them
\* is kept as the term that computes it
Term(f, x, y) == [fn |-> f, x |-> x, y |-> y]

\* calcStdDev, lines 178-196
calcStdDev(data) ==
    IF Len(data) = 0 THEN Zero
    ELSE LET mean == FDiv(FSum(data), R(Len(data)))
             variance ==
                 FDiv(FSum([k \in DOMAIN data |->
                              FMul(FSub(data[k], mean), FSub(data[k], mean))]),
                      R(Len(data)))
         IN  Term("Sqrt", variance, Zero)

\* lines 206-215: the loop over values[k..], with the peak and the largest
\* drawdown so far
RECURSIVE DrawdownLoopFixedPeak(_, _, _, _)
DrawdownLoopFixedPeak(values, k, peak, maxDrawdown) ==
    IF k > Len(values) THEN maxDrawdown
    ELSE LET drawdown == FDiv(FSub(peak, values[k]), peak)
         IN  DrawdownLoopFixedPeak(values, k + 1, peak,
                 IF FGt(drawdown, maxDrawdown) THEN drawdown ELSE maxDrawdown)

RECURSIVE DrawdownLoop(_, _, _, _)
DrawdownLoop(values, k, peak, maxDrawdown) ==
    IF k > Len(values) THEN maxDrawdown
    ELSE LET value == values[k]
             newPeak == IF FGt(value, peak) THEN value ELSE peak
             drawdown == FDiv(FSub(newPeak, value), newPeak)
         IN  DrawdownLoop(values, k + 1, newPeak,
                          IF FGt(drawdown, maxDrawdown) THEN drawdown ELSE maxDrawdown)

\* calcMaxDrawdown, lines 198-218
calcMaxDrawdown(values) ==
    IF Len(values) < 2 THEN Zero
    ELSE DrawdownLoop(values, 1, values[1], Zero)

\* Stats, lines 146-176, of a result whose portfolio is q
StatsFromTwoDays(q) ==
    IF Len(q.Dates) < 2 THEN <<>>
    ELSE [k \in {"final_value"} |-> q.Value[Len(q.Value)]]

Stats(q) ==
    IF Len(q.Value) < 2 THEN <<>>
    ELSE LET initialValue == q.Value[1]
             finalValue == q.Value[Len(q.Value)]
             returns == FSub(FDiv(finalValue, initialValue), R(1))
             years == FDiv(R(Len(q.Dates)), R(252))
             annReturn ==
                 Term("Sub", Term("Pow", FAdd(R(1), returns), FDiv(R(1), years)), R(1))
             dailyReturns ==
                 [i \in 1..(Len(q.Value) - 1) |->
                     FSub(FDiv(q.Value[i + 1], q.Value[i]), R(1))]
             volatility == Term("Mul", calcStdDev(dailyReturns), Term("Sqrt", R(252), Zero))
             maxDrawdown == calcMaxDrawdown(q.Value)
             sharpeRatio == Term("Div", annReturn, volatility)
         IN  [k \in {"total_return", "annualized_return", "volatility", "sharpe_ratio",
                     "max_drawdown", "final_value"} |->
                CASE k = "total_return" -> FMul(returns, R(100))
                  [] k = "annualized_return" -> Term("Mul", annReturn, R(100))
                  [] k = "volatility" -> Term("Mul", volatility, R(100))
                  [] k = "sharpe_ratio" -> sharpeRatio
                  [] k = "max_drawdown" -> FMul(maxDrawdown, R(100))
                  [] k = "final_value" -> finalValue]

MaxValues == 4

\* the values a recorded series may hold
ValueChoices == {Zero, R(50), R(100), R(200)}

ValueSeries == SeqsUpTo(ValueChoices, MaxValues)

\* the dates recorded next to a value series: none, or one per value after
\* the first, as Run records them
DatesFor(values) ==
    {<<>>} \cup {[k \in 1..(Len(values) - 1) |-> DateChoices[1]]}

NoCall == [args |-> "none"]

InitCallsIdle ==
    /\ fn = "none"
    /\ input = NoCall
    /\ output = NoCall

\* the caller asks for the statistics of a result
CallStats ==
    /\ fn = "none"
    /\ \E values \in ValueSeries :
         \E ds \in DatesFor(values) :
           LET q == [Value |-> values, Dates |-> ds]
           IN  /\ input' = q
               /\ output' = Stats(q)
    /\ fn' = "Stats"
    /\ UNCHANGED <<taxVars, btVars, genVars, netVars>>

CallMaxDrawdown ==
    /\ fn = "none"
    /\ \E values \in ValueSeries :
         /\ input' = values
         /\ output' = calcMaxDrawdown(values)
    /\ fn' = "calcMaxDrawdown"
    /\ UNCHANGED <<taxVars, btVars, genVars, netVars>>

NextStats == CallStats \/ CallMaxDrawdown

\* ------------------------------------------------------------------------
\* Direct calls of the tax-aware engine: Drift, DriftCost, the sell walk,
\* and Rebalance towards a short target
\* ------------------------------------------------------------------------
\* the caller's holdings of VTI and BND with the target weights ws
HoldingsWith(ws) ==
    { << [Ticker |-> "VTI", TargetWeight |-> w[1], Lots |-> vl],
         [Ticker |-> "BND", TargetWeight |-> w[2], Lots |-> bl] >> :
        vl \in SeqsUpTo(LotSet, MaxLots), bl \in {<<>>, <<BondLot>>}, w \in ws }

DriftWeights == WeightPairs \cup {<<Frac(6, 11), Frac(5, 11)>>}

\* a target that shorts VTI: more shares are to be sold than the lots hold
ShortWeights == {<<Frac(-1, 2), Frac(3, 2)>>}

SellShares == {R(0), R(5), R(10), R(15), R(25), R(35)}

ConfigWith(sel, mts) ==
    [TaxRates |-> DefaultTaxRates, LotSelector |-> sel, AsOf |-> AsOfHour,
     MinTradeSize |-> mts]

CallDrift ==
    /\ fn = "none"
    /\ \E hs \in HoldingsWith(DriftWeights), prc \in PriceMaps :
         /\ input' = [holdings |-> hs, prices |-> prc]
         /\ output' = Drift(hs, prc)
    /\ fn' = "Drift"
    /\ UNCHANGED <<taxVars, btVars, genVars, netVars>>

CallDriftCost ==
    /\ fn = "none"
    /\ \E hs \in HoldingsWith(DriftWeights), prc \in PriceMaps :
         /\ input' = [holdings |-> hs, prices |-> prc]
         /\ output' = DriftCost(hs, prc)
    /\ fn' = "DriftCost"
    /\ UNCHANGED <<taxVars, btVars, genVars, netVars>>

\* Rebalance's sell branch asks for the tax cost of selling sharesToSell
CallSellTaxCost ==
    /\ fn = "none"
    /\ \E vl \in SeqsUpTo(LotSet, MaxLots), price \in {R(60), R(200)},
          sharesToSell \in SellShares, sel \in Selectors :
         LET h == [Ticker |-> "VTI", TargetWeight |-> Zero, Lots |-> vl]
             cfg == ConfigWith(sel, Zero)
         IN  /\ input' = [h |-> h, price |-> price, sharesToSell |-> sharesToSell,
                          config |-> cfg]
             /\ output' = calculateSellTaxCost(h, price, sharesToSell, cfg).tax
    /\ fn' = "calculateSellTaxCost"
    /\ UNCHANGED <<taxVars, btVars, genVars, netVars>>

\* the caller rebalances towards a short target
CallRebalanceShort ==
    /\ fn = "none"
    /\ \E hs \in HoldingsWith(ShortWeights), prc \in PriceMaps,
          sel \in Selectors, mts \in MinTradeSizes :
         /\ input' = [holdings |-> hs, prices |-> prc, config |-> ConfigWith(sel, mts)]
         /\ output' = Rebalance(hs, prc, ConfigWith(sel, mts)).trades
    /\ fn' = "Rebalance"
    /\ UNCHANGED <<taxVars, btVars, genVars, netVars>>

NextSell == CallDrift \/ CallDriftCost \/ CallSellTaxCost \/ CallRebalanceShort

\* ------------------------------------------------------------------------
\* The price client: GetPrices fetches every symbol in a goroutine of its own
\* ------------------------------------------------------------------------
MaxSymbols == 2

\* a date argument as text: its layout and the numbers written in it
DateText(layout, y, m, d) == [layout |-> layout, y |-> y, m |-> m, d |-> d]

\* time.Parse("2006-01-02", date) fails on another layout and on a day that
\* is not in the calendar
ValidateDate(date) ==
    IF /\ date.layout = "2006-01-02"
       /\ date.m \in 1..12
       /\ date.d \in 1..DaysIn(date.y, date.m)
    THEN "nil"
    ELSE "must be YYYY-MM-DD format"

validateInput(apiKey, syms, startDate, endDate) ==
    IF Len(syms) = 0 THEN "no symbols provided"
    ELSE IF apiKey = "" THEN "API key is missing"
    ELSE IF ValidateDate(startDate) # "nil" THEN "invalid startDate"
    ELSE IF ValidateDate(endDate) # "nil" THEN "invalid endDate"
    ELSE "nil"

StockPrice(date, open, high, low, close, adjusted, volume) ==
    [Date |-> date, Open |-> open, High |-> high, Low |-> low, Close |-> close,
     AdjustedClose |-> adjusted, Volume |-> volume]

jsonResponse1 == "[{date:2023-10-26,open:100,high:101,low:99,close:100.5,adjusted_close:100.5,volume:1000}]"

jsonResponse2 == "[{date:2023-10-26,open:200,high:201,low:199,close:200.5,adjusted_close:200.5,volume:2000}]"

\* json.Unmarshal(body, &prices)
Unmarshal(body) ==
    CASE body = jsonResponse1 ->
           [prices |-> << StockPrice("2023-10-26", R(100), R(101), R(99), Frac(201, 2),
                                     Frac(201, 2), R(1000)) >>, err |-> "nil"]
      [] body = jsonResponse2 ->
           [prices |-> << StockPrice("2023-10-26", R(200), R(201), R(199), Frac(401, 2),
                                     Frac(401, 2), R(2000)) >>, err |-> "nil"]
      [] body = "[]" -> [prices |-> <<>>, err |-> "nil"]
      [] OTHER -> [prices |-> <<>>, err |-> "error parsing JSON"]

\* what the transport may give for a symbol's URL
ServerResponses(symbol) ==
    {[err |-> "nil", StatusCode |-> 200,
      Body |-> IF symbol = "AAPL" THEN jsonResponse1 ELSE jsonResponse2],
     [err |-> "nil", StatusCode |-> 200, Body |-> "[]"],
     [err |-> "nil", StatusCode |-> 200, Body |-> "<html>"],
     [err |-> "nil", StatusCode |-> 500, Body |-> "error"],
     [err |-> "no response found", StatusCode |-> 0, Body |-> ""]}

\* fetchAndUnmarshal, given the transport's answer
fetchAndUnmarshal(resp) ==
    IF resp.err # "nil" THEN [prices |-> <<>>, err |-> "error making request"]
    ELSE IF resp.StatusCode # 200 THEN [prices |-> <<>>, err |-> "API request failed"]
    ELSE Unmarshal(resp.Body)

\* a channel made for one value only
ChanCapOne(syms) == 1

\* make(chan ..., len(symbols)): the capacity of errorChan and of resultChan
ChanCap(syms) == Len(syms)

SymbolLists ==
    UNION {[1..k -> {"AAPL", "MSFT"}] : k \in 0..MaxSymbols}

DateTexts == {DateText("2006-01-02", 2023, 10, 26), DateText("2006-01-02", 2023, 2, 30),
              DateText("01/02/2006", 2023, 10, 26)}

\* fmt.Errorf("error fetching data for %s: %v", symbol, cause); a nil error
\* and the errors of validateInput name no symbol
ErrorFor(symbol, cause) == [symbol |-> symbol, cause |-> cause]

NoFrame == [pc |-> "none", apiKey |-> "", symbols |-> <<>>,
            startDate |-> DateText("2006-01-02", 2023, 10, 26),
            endDate |-> DateText("2006-01-02", 2023, 10, 26),
            k |-> 0, collected |-> 0, results |-> <<>>,
            ret |-> [prices |-> NilMap, err |-> ErrorFor("", "none")]]

NoResult == [symbol |-> "", prices |-> <<>>, err |-> "none"]

InitNetIdle ==
    /\ getPrices = NoFrame
    /\ fetchers = <<>>
    /\ resultChan = <<>>
    /\ errorChan = <<>>

\* a caller about to call GetPrices on a client
InitNet ==
    /\ \E key \in {"", "test_api_key"}, syms \in SymbolLists, sd \in DateTexts,
          ed \in DateTexts :
         getPrices = [NoFrame EXCEPT !.pc = "call", !.apiKey = key, !.symbols = syms,
                                     !.startDate = sd, !.endDate = ed]
    /\ fetchers = <<>>
    /\ resultChan = <<>>
    /\ errorChan = <<>>

Validation ==
    validateInput(getPrices.apiKey, getPrices.symbols, getPrices.startDate,
                  getPrices.endDate)

\* GetPrices, lines 56-58: the input is refused
GetPricesInvalid ==
    /\ getPrices.pc = "call"
    /\ Validation # "nil"
    /\ getPrices' = [getPrices EXCEPT !.pc = "done",
                                      !.ret = [prices |-> NilMap, err |-> ErrorFor("", Validation)]]
    /\ UNCHANGED <<fetchers, resultChan, errorChan, taxVars, btVars, genVars, callVars>>

\* GetPrices, lines 56-66: the map and the two channels
GetPricesMake ==
    /\ getPrices.pc = "call"
    /\ Validation = "nil"
    /\ getPrices' = [getPrices EXCEPT !.pc = "go", !.k = 1, !.results = <<>>]
    /\ resultChan' = <<>>
    /\ errorChan' = <<>>
    /\ UNCHANGED <<fetchers, taxVars, btVars, genVars, callVars>>

\* GetPrices, lines 69-78: start a goroutine for the next symbol
GetPricesGo ==
    /\ getPrices.pc = "go"
    /\ fetchers' = Append(fetchers, [sym |-> getPrices.symbols[getPrices.k],
                                     pc |-> "fetch", result |-> NoResult])
    /\ getPrices' = [getPrices EXCEPT
                       !.k = @ + 1,
                       !.pc = IF getPrices.k = Len(getPrices.symbols) THEN "collect"
                              ELSE "go"]
    /\ UNCHANGED <<resultChan, errorChan, taxVars, btVars, genVars, callVars>>

\* the goroutine, line 71: fetch the symbol's prices
Fetch ==
    /\ \E g \in DOMAIN fetchers :
         /\ fetchers[g].pc = "fetch"
         /\ \E resp \in ServerResponses(fetchers[g].sym) :
              LET r == fetchAndUnmarshal(resp)
              IN  fetchers' = [fetchers EXCEPT
                                 ![g].pc = "send",
                                 ![g].result = [symbol |-> fetchers[g].sym,
                                                prices |-> r.prices, err |-> r.err]]
    /\ UNCHANGED <<getPrices, resultChan, errorChan, taxVars, btVars, genVars, callVars>>

\* the goroutine, lines 72-76: send the result; a full channel blocks
Send ==
    /\ \E g \in DOMAIN fetchers :
         /\ fetchers[g].pc = "send"
         /\ Len(resultChan) < ChanCap(getPrices.symbols)
         /\ resultChan' = Append(resultChan, fetchers[g].result)
         /\ fetchers' = [fetchers EXCEPT ![g].pc = "exit"]
    /\ UNCHANGED <<getPrices, errorChan, taxVars, btVars, genVars, callVars>>

\* GetPrices, lines 81-88: receive one result; an empty resultChan and a
\* full errorChan block
GetPricesReceive ==
    /\ getPrices.pc = "collect"
    /\ resultChan # <<>>
    /\ LET result == Head(resultChan)
           last == getPrices.collected + 1 = Len(getPrices.symbols)
       IN  /\ resultChan' = Tail(resultChan)
           /\ IF result.err # "nil" THEN
                 /\ Len(errorChan) < ChanCap(getPrices.symbols)
                 /\ errorChan' = Append(errorChan, ErrorFor(result.symbol, result.err))
                 /\ getPrices' = [getPrices EXCEPT
                                    !.collected = @ + 1,
                                    !.pc = IF last THEN "select" ELSE "collect"]
              ELSE
                 /\ errorChan' = errorChan
                 /\ getPrices' = [getPrices EXCEPT
                                    !.collected = @ + 1,
                                    !.pc = IF last THEN "select" ELSE "collect",
                                    !.results =
                                       [s \in DOMAIN getPrices.results \cup {result.symbol} |->
                                           IF s = result.symbol THEN result.prices
                                           ELSE getPrices.results[s]]]
    /\ UNCHANGED <<fetchers, taxVars, btVars, genVars, callVars>>

\* GetPrices, lines 91-96: the first error, or the map
GetPricesReturn ==
    /\ getPrices.pc = "select"
    /\ IF errorChan # <<>> THEN
          /\ getPrices' = [getPrices EXCEPT
                             !.pc = "done",
                             !.ret = [prices |-> NilMap, err |-> Head(errorChan)]]
          /\ errorChan' = Tail(errorChan)
       ELSE
          /\ getPrices' = [getPrices EXCEPT
                             !.pc = "done",
                             !.ret = [prices |-> MapOf(getPrices.results),
                                      err |-> ErrorFor("", "nil")]]
          /\ errorChan' = errorChan
    /\ UNCHANGED <<fetchers, resultChan, taxVars, btVars, genVars, callVars>>

NextNet ==
    \/ GetPricesInvalid \/ GetPricesMake \/ GetPricesGo
    \/ Fetch \/ Send
    \/ GetPricesReceive \/ GetPricesReturn

InitTaxIdle ==
    /\ holdings = <<>>
    /\ prices = <<>>
    /\ config = [TaxRates |-> DefaultTaxRates, LotSelector |-> "FIFO",
                 AsOf |-> AsOfHour, MinTradeSize |-> Zero]
    /\ op = "none"
    /\ arg = NoArg
    /\ trades = <<>>
    /\ sorted = <<>>
    /\ tax = Zero

vars == <<taxVars, btVars, genVars, callVars, netVars>>

\* calls of the tax-aware engine
InitTaxCalls == InitTax /\ InitBacktestIdle /\ InitGenIdle /\ InitCallsIdle /\ InitNetIdle

SpecTax == InitTaxCalls /\ [][NextTax]_vars

\* runs of the back-tester
InitRuns == InitRun /\ InitTaxIdle /\ InitGenIdle /\ InitCallsIdle /\ InitNetIdle

SpecRun == InitRuns /\ [][NextRun]_vars

\* goroutines building price data and running back-tests side by side
InitGens == InitGen /\ InitTaxIdle /\ InitBacktestIdle /\ InitCallsIdle /\ InitNetIdle

SpecGen == InitGens /\ [][NextGen]_vars

\* calls of Stats and calcMaxDrawdown on recorded value series
InitStats == InitCallsIdle /\ InitTaxIdle /\ InitBacktestIdle /\ InitGenIdle /\ InitNetIdle

SpecStats == InitStats /\ [][NextStats]_vars

\* direct calls of the tax-aware engine
InitSell == InitCallsIdle /\ InitTaxIdle /\ InitBacktestIdle /\ InitGenIdle /\ InitNetIdle

SpecSell == InitSell /\ [][NextSell]_vars

\* a call of the price client's GetPrices
InitNets == InitNet /\ InitTaxIdle /\ InitBacktestIdle /\ InitGenIdle /\ InitCallsIdle

SpecNet == InitNets /\ [][NextNet]_vars

\* ------------------------------------------------------------------------
\* Properties of the tax-aware engine
\* ------------------------------------------------------------------------
\* what the claims speak of, written out from the inputs
SpecValue(i) ==
    FSum([k \in 1..Len(holdings[i].Lots) |->
             FMul(holdings[i].Lots[k].Shares, PriceOf(prices, holdings[i].Ticker))])

SpecTotal ==
    FSum([i \in 1..Len(holdings) |->
             IF holdings[i].Ticker \in DOMAIN prices THEN SpecValue(i) ELSE Zero])

SpecDiff(i) == FSub(FMul(SpecTotal, holdings[i].TargetWeight), SpecValue(i))

TradesOf(i) == {k \in DOMAIN trades : trades[k].Ticker = holdings[i].Ticker}

IsSell(t) == ~FGt(t.Amount, Zero)

Count(s, x) == Cardinality({k \in DOMAIN s : s[k] = x})

IsPermutation(s, t) ==
    /\ Len(s) = Len(t)
    /\ \A k \in DOMAIN s : Count(s, s[k]) = Count(t, s[k])

\* C1: no call ever changes the caller's holdings: every holding keeps the
\* same lots, in the same order, with the same fields.
ThmC1_LotsNeverMutated == [][holdings' = holdings]_vars

\* a rebalance sold from a holding whose lots were not in selector order
WitC1_SoldFromUnsortedLots ==
    /\ op = "Rebalance"
    /\ \E i \in DOMAIN holdings :
         /\ \E k \in TradesOf(i) : FLt(trades[k].Shares, Zero)
         /\ SortSlice(holdings[i].Lots, config.LotSelector) # holdings[i].Lots

\* C2: a selector's output is a permutation of its input, in non-decreasing
\* purchase-date order for FIFO, non-increasing purchase-date order for LIFO
\* and non-increasing cost-basis order for HighestCostFirst.
ThmC2_SelectorsSortPermutation ==
    op = "Selector" =>
      /\ IsPermutation(sorted, holdings[arg.h].Lots)
      /\ \A a, b \in DOMAIN sorted : a < b =>
           CASE config.LotSelector = "FIFO" ->
                  sorted[a].PurchaseDate <= sorted[b].PurchaseDate
             [] config.LotSelector = "LIFO" ->
                  sorted[a].PurchaseDate >= sorted[b].PurchaseDate
             [] config.LotSelector = "HighestCostFirst" ->
                  FLe(sorted[b].CostBasis, sorted[a].CostBasis)

\* a selector had to reorder its input
WitC2_SelectorReordered ==
    /\ op = "Selector"
    /\ Len(sorted) >= 2
    /\ sorted # holdings[arg.h].Lots

\* the sell trade for holding i when the same call is made with selector sel
TaxUnder(sel, i) ==
    LET ts == Rebalance(holdings, prices, [config EXCEPT !.LotSelector = sel]).trades
        k == CHOOSE k \in DOMAIN ts : ts[k].Ticker = holdings[i].Ticker
    IN  ts[k].TaxCost

\* the gain realised by selling the trade's shares from holding i in sel's order
RealizedGain(sel, i, shares) ==
    SellWalk(SortSlice(holdings[i].Lots, sel), PriceOf(prices, holdings[i].Ticker),
             shares, Zero,
             [config EXCEPT !.TaxRates = [ShortTerm |-> R(1), LongTerm |-> R(1)]])

MixedBasis(i) ==
    \E a, b \in DOMAIN holdings[i].Lots :
        holdings[i].Lots[a].CostBasis # holdings[i].Lots[b].CostBasis

SameHoldingPeriod(i) ==
    \A a, b \in DOMAIN holdings[i].Lots :
        IsLongTerm(holdings[i].Lots[a], config.AsOf)
          = IsLongTerm(holdings[i].Lots[b], config.AsOf)

\* holding i was sold at a net gain by a HighestCostFirst rebalance (trade k)
GainSale(i, k) ==
    /\ op = "Rebalance"
    /\ config.LotSelector = "HighestCostFirst"
    /\ k \in TradesOf(i)
    /\ FLt(trades[k].Shares, Zero)
    /\ MixedBasis(i)
    /\ FGt(RealizedGain("HighestCostFirst", i, FNeg(trades[k].Shares)), Zero)
    /\ FGt(RealizedGain("FIFO", i, FNeg(trades[k].Shares)), Zero)

\* C3 as claimed: on a mixed-basis holding sold at a net gain, the tax cost
\* under HighestCostFirst is strictly less than under FIFO.
CexC3_StrictlyLessThanFIFO ==
    \A i \in DOMAIN holdings : \A k \in DOMAIN trades :
        GainSale(i, k) => FLt(trades[k].TaxCost, TaxUnder("FIFO", i))

\* C3 amended: when all lots of the holding fall in the same holding-period
\* class, the tax cost under HighestCostFirst is at most that under FIFO.
ThmC3_NeverMoreThanFIFO ==
    \A i \in DOMAIN holdings : \A k \in DOMAIN trades :
        GainSale(i, k) /\ SameHoldingPeriod(i) =>
            FLe(trades[k].TaxCost, TaxUnder("FIFO", i))

\* a same-class holding where HighestCostFirst is strictly cheaper than FIFO
WitC3_CheaperThanFIFO ==
    \E i \in DOMAIN holdings : \E k \in DOMAIN trades :
        /\ GainSale(i, k)
        /\ SameHoldingPeriod(i)
        /\ FLt(trades[k].TaxCost, TaxUnder("FIFO", i))

\* C4: a sell trade's Shares is minus (currentValue - targetValue) / price,
\* and the trades carry the same share counts whichever selector is used.
ThmC4_SharesConserved ==
    op = "Rebalance" =>
      /\ \A i \in DOMAIN holdings : \A k \in TradesOf(i) :
           IsSell(trades[k]) =>
             trades[k].Shares =
               FNeg(FDiv(FSub(SpecValue(i), FMul(SpecTotal, holdings[i].TargetWeight)),
                         PriceOf(prices, holdings[i].Ticker)))
      /\ \A sel \in Selectors :
           LET ts == Rebalance(holdings, prices,
                               [config EXCEPT !.LotSelector = sel]).trades
           IN  /\ Len(ts) = Len(trades)
               /\ \A k \in DOMAIN ts : /\ ts[k].Ticker = trades[k].Ticker
                                       /\ ts[k].Shares = trades[k].Shares

\* a sale that spans more than one lot
WitC4_SellAcrossLots ==
    /\ op = "Rebalance"
    /\ \E i \in DOMAIN holdings : \E k \in TradesOf(i) :
         /\ Len(holdings[i].Lots) >= 2
         /\ FGt(FNeg(trades[k].Shares), holdings[i].Lots[1].Shares)

\* C5: TaxCost is Shares * (price - CostBasis) times the long-term rate when
\* the lot has been held strictly more than 365*24 hours and times the
\* short-term rate otherwise; below cost basis the result is negative.
ThmC5_TaxCostFormula ==
    op = "TaxCost" =>
      LET lot == holdings[arg.h].Lots[arg.l]
          price == PriceOf(prices, holdings[arg.h].Ticker)
          rate == IF config.AsOf - lot.PurchaseDate > 365 * 24
                  THEN config.TaxRates.LongTerm
                  ELSE config.TaxRates.ShortTerm
      IN  /\ tax = FMul(FMul(lot.Shares, FSub(price, lot.CostBasis)), rate)
          /\ FLt(price, lot.CostBasis) => FLt(tax, Zero)

\* a lot held exactly 365 days, sold below cost at the short-term rate
WitC5_ExactlyOneYearLoss ==
    /\ op = "TaxCost"
    /\ config.AsOf - holdings[arg.h].Lots[arg.l].PurchaseDate = 365 * 24
    /\ FLt(tax, Zero)
    /\ tax = FMul(UnrealizedGain(holdings[arg.h].Lots[arg.l],
                                 PriceOf(prices, holdings[arg.h].Ticker)),
                  config.TaxRates.ShortTerm)

\* C6: with a nonzero total, a holding gets a trade exactly when its
\* |targetValue - currentValue| is not strictly below MinTradeSize; so when
\* every holding is within MinTradeSize of its target there are no trades.
ThmC6_SkipsBelowMinTradeSize ==
    op = "Rebalance" =>
      /\ \A i \in DOMAIN holdings :
           /\ FLt(FAbs(SpecDiff(i)), config.MinTradeSize) => TradesOf(i) = {}
           /\ (~FLt(FAbs(SpecDiff(i)), config.MinTradeSize) /\ ~FEq(SpecTotal, Zero))
                => TradesOf(i) # {}
      /\ (\A i \in DOMAIN holdings : FLt(FAbs(SpecDiff(i)), config.MinTradeSize))
           => trades = <<>>

\* an unbalanced portfolio, every holding within MinTradeSize: no trades
WitC6_AllWithinMinTradeSize ==
    /\ op = "Rebalance"
    /\ ~FEq(SpecTotal, Zero)
    /\ \A i \in DOMAIN holdings :
         /\ SpecDiff(i) # Zero
         /\ FLt(FAbs(SpecDiff(i)), config.MinTradeSize)
    /\ trades = <<>>

\* C7: a portfolio whose total value is zero gets no trades.
ThmC7_ZeroTotalNoTrades ==
    (op = "Rebalance" /\ SpecTotal = Zero) => trades = <<>>

\* zero total with target weights set and no minimum trade size
WitC7_ZeroTotal ==
    /\ op = "Rebalance"
    /\ SpecTotal = Zero
    /\ config.MinTradeSize = Zero
    /\ \E i \in DOMAIN holdings : FGt(holdings[i].TargetWeight, Zero)
    /\ \E i \in DOMAIN holdings : holdings[i].Lots # <<>>
    /\ trades = <<>>

TradeAmounts == [k \in DOMAIN trades |-> trades[k].Amount]

AllPriced == \A i \in DOMAIN holdings : holdings[i].Ticker \in DOMAIN prices

WeightsSumToOne ==
    FSum([i \in DOMAIN holdings |-> holdings[i].TargetWeight]) = R(1)

\* the portfolio of TestRebalanceGeneratesTrades: VTI 7500, BND 10000
ExampleTrades ==
    Rebalance(<< [Ticker |-> "VTI", TargetWeight |-> Frac(6, 10),
                  Lots |-> << [Shares |-> R(100), CostBasis |-> R(50),
                               PurchaseDate |-> AsOfHour - 2 * 365 * 24] >>],
                 [Ticker |-> "BND", TargetWeight |-> Frac(4, 10),
                  Lots |-> << [Shares |-> R(200), CostBasis |-> R(40),
                               PurchaseDate |-> AsOfHour - 2 * 365 * 24] >>] >>,
              [t \in {"VTI", "BND"} |-> IF t = "VTI" THEN R(75) ELSE R(50)],
              [TaxRates |-> DefaultTaxRates, LotSelector |-> "FIFO",
               AsOf |-> AsOfHour, MinTradeSize |-> Zero]).trades

\* C8: with every holding priced, target weights summing to 1 and
\* MinTradeSize 0, the trade Amounts sum to zero; with two trades one Amount
\* is minus the other (+3000 / -3000 in the 17500 example).
ThmC8_CashNeutral ==
    (op = "Rebalance" /\ AllPriced /\ WeightsSumToOne /\ config.MinTradeSize = Zero) =>
      /\ FSum(TradeAmounts) = Zero
      /\ Len(trades) = 2 => trades[1].Amount = FNeg(trades[2].Amount)
      /\ [k \in DOMAIN ExampleTrades |-> ExampleTrades[k].Amount]
           = << R(3000), R(-3000) >>

\* a buy and a sell of equal, nonzero size
WitC8_BuyMatchesSell ==
    /\ op = "Rebalance"
    /\ AllPriced /\ WeightsSumToOne /\ config.MinTradeSize = Zero
    /\ Len(trades) = 2
    /\ \E a, b \in DOMAIN trades :
         /\ FGt(trades[a].Amount, Zero)
         /\ FLt(trades[b].Amount, Zero)
         /\ trades[a].Amount = FNeg(trades[b].Amount)

\* ------------------------------------------------------------------------
\* Properties of the back-tester
\* ------------------------------------------------------------------------
\* C9: a Run over price data with zero dates returns an error and a nil
\* result and leaves Value, Cash, Weights, Dates and Holdings as they were.
ThmC9_EmptyRunFailsUnchanged ==
    [][(Callable /\ pc' # "idle" /\ Len(p.PriceData.Dates) = 0) =>
          /\ pc' = "failed"
          /\ ret'.result = "nil"
          /\ ret'.err # "nil"
          /\ p'.Value = p.Value
          /\ p'.Cash = p.Cash
          /\ p'.Weights = p.Weights
          /\ p'.Dates = p.Dates
          /\ p'.Holdings = p.Holdings]_vars

\* a Run failed on empty data after an earlier Run had recorded a history
WitC9_FailedKeepingHistory ==
    /\ pc = "failed"
    /\ ret = [result |-> "nil", err |-> "price data is empty"]
    /\ Len(p.PriceData.Dates) = 0
    /\ Len(p.Value) > 1
    /\ Len(p.Dates) > 0

\* the monthly policy has just been asked about day loc.i
MonthlyAsked == pc = "trade" /\ p.Rebalancer.kind = "monthly"

AskedDate == p.PriceData.Dates[loc.i]

\* day k is the last date of its month present in the series
LastOfMonthInSeries(k) ==
    LET ds == p.PriceData.Dates
    IN  ~\E j \in DOMAIN ds : /\ ds[j].y = ds[k].y
                              /\ ds[j].m = ds[k].m
                              /\ DateBefore(ds[k], ds[j])

\* C10 as claimed: the monthly policy returns the target weights exactly on
\* the last date of each month present in the series, and nil otherwise.
CexC10_FiresOnLastTradingDay ==
    MonthlyAsked =>
      loc.rebWeights = IF LastOfMonthInSeries(loc.i)
                       THEN MapOf(p.Rebalancer.targetWeights) ELSE NilMap

\* C10 amended: the monthly policy returns the target weights exactly on
\* the last calendar day of a month, whatever dates the series holds.
ThmC10_FiresOnLastCalendarDay ==
    MonthlyAsked =>
      loc.rebWeights = IF AskedDate.d = DaysIn(AskedDate.y, AskedDate.m)
                       THEN MapOf(p.Rebalancer.targetWeights) ELSE NilMap

\* the policy fired on a month's last calendar day after staying silent on
\* an earlier day of the same month
WitC10_FiredAtMonthEnd ==
    /\ MonthlyAsked
    /\ loc.rebWeights = MapOf(p.Rebalancer.targetWeights)
    /\ loc.i >= 2
    /\ p.PriceData.Dates[loc.i - 1].m = AskedDate.m
    /\ p.PriceData.Dates[loc.i - 1].y = AskedDate.y

\* a Run has returned its result for a portfolio with fee rate 0 whose policy
\* never fires
NeverFiredRunDone == pc = "done" /\ p.Fees = Zero /\ p.Rebalancer.kind = "never"

\* the buy-and-hold value of the initial weights over the series
BuyAndHoldValue ==
    LET pd == p.PriceData
        n == Len(pd.Dates)
    IN  FMul(p.InitCash,
             FSum([k \in DOMAIN p.Assets |->
                      FMul(p.Assets[k].Weight,
                           FDiv(pd.Prices[p.Assets[k].Symbol][n],
                                pd.Prices[p.Assets[k].Symbol][1]))]))

\* C11 as claimed: with fee rate 0 and a policy that never fires the
\* terminal value of a run equals the buy-and-hold value of the initial
\* weights, InitCash * sum of weight * lastPrice / firstPrice.
CexC11_NeverFiringIsBuyAndHold ==
    NeverFiredRunDone => FEq(p.Value[Len(p.Value)], BuyAndHoldValue)

\* every symbol of the price data has one price per date
Aligned(pd) == \A s \in DOMAIN pd.Prices : Len(pd.Prices[s]) = Len(pd.Dates)

RunInProgress == pc \in {"policy", "trade", "value", "commit"}

\* C12 as claimed: SetPriceData rejects price data in which a symbol's price
\* sequence is not as long as the date sequence, so no Run ever walks a
\* series that violates len(dates) = len(prices[symbol]).
CexC12_MisalignedDataRejected == RunInProgress => Aligned(p.PriceData)

\* ------------------------------------------------------------------------
\* Properties of GenerateDummyPriceData and of concurrent back-tests
\* ------------------------------------------------------------------------
\* the i-th price of the a-th asset over n dates when the generator runs
\* alone: the variates are drawn in order from the freshly seeded Source
RECURSIVE AlonePrice(_, _, _)
AlonePrice(a, i, n) ==
    IF i = 1 THEN R(100)
    ELSE NextPrice(AlonePrice(a, i - 1, n), NormStream[(a - 1) * (n - 1) + i - 1])

\* what goroutine w builds when it is executed alone
AloneData(w) ==
    LET ds == GenDateLoop(gen[w].startDate, gen[w].endDate, <<>>)
        as == gen[w].assets
    IN  [Dates |-> ds,
         Prices |-> [s \in {as[k] : k \in DOMAIN as} |->
                       [i \in 1..Len(ds) |->
                          AlonePrice(CHOOSE k \in DOMAIN as : as[k] = s, i, Len(ds))]]]

\* the portfolio of goroutine w after its Run when it is executed alone
AloneRun(w) == RunAll([GenPortfolio EXCEPT !.PriceData = AloneData(w)])

\* C13 as claimed: concurrent back-tests share no mutable state, so under
\* every interleaving each goroutine builds the price data and records the
\* Value and Cash histories it would have built and recorded alone.
CexC13_ConcurrentRunsAsAlone ==
    \A w \in Workers :
      /\ gen[w].pc \in {"built", "set", "ran"} => gen[w].data = AloneData(w)
      /\ gen[w].pc = "ran" => /\ gen[w].q.Value = AloneRun(w).Value
                              /\ gen[w].q.Cash = AloneRun(w).Cash

\* the number of the calendar day: days since 2019-12-31
RECURSIVE DaysBeforeYear(_)
DaysBeforeYear(y) ==
    IF y <= 2020 THEN 0
    ELSE DaysBeforeYear(y - 1) + (IF IsLeap(y - 1) THEN 366 ELSE 365)

RECURSIVE DaysBeforeMonth(_, _)
DaysBeforeMonth(y, m) ==
    IF m <= 1 THEN 0 ELSE DaysBeforeMonth(y, m - 1) + DaysIn(y, m - 1)

DayNumber(date) == DaysBeforeYear(date.y) + DaysBeforeMonth(date.y, date.m) + date.d

IsCalendarDay(date) ==
    date.m \in 1..12 /\ date.d \in 1..DaysIn(date.y, date.m)

\* the generator's dates for 2020, walked a month at a time: the loop from
\* 2020-01-01 to 2020-12-31 passes the first and the last day of each month
MonthDates(m) == GenDateLoop(Date(2020, m, 1), Date(2020, m, DaysIn(2020, m)), <<>>)

RECURSIVE DatesThroughMonth(_)
DatesThroughMonth(m) ==
    IF m = 0 THEN 0 ELSE DatesThroughMonth(m - 1) + Len(MonthDates(m))

MonthsJoin ==
    \A m \in 1..11 : NextDay(MonthDates(m)[Len(MonthDates(m))]) = MonthDates(m + 1)[1]

DatesOfTenDays == GenDateLoop(Date(2020, 1, 1), Date(2020, 1, 10), <<>>)

\* goroutine w has built its price data
Built(w) == gen[w].pc \in {"built", "set", "ran"}

\* C16: for startDate <= endDate the generator yields one date per calendar
\* day from startDate to endDate inclusive, ascending and without
\* duplicates (366 dates for 2020, 10 for its first ten days), and for every
\* requested asset a price sequence with one price per date.
ThmC16_OneDatePerCalendarDay ==
    /\ MonthsJoin /\ DatesThroughMonth(12) = 366
    /\ Len(DatesOfTenDays) = 10
    /\ \A w \in Workers :
         (Built(w) /\ ~DateBefore(gen[w].endDate, gen[w].startDate)) =>
           LET ds == gen[w].data.Dates
               first == DayNumber(gen[w].startDate)
               last == DayNumber(gen[w].endDate)
           IN  /\ Len(ds) = last - first + 1
               /\ \A k \in DOMAIN ds : IsCalendarDay(ds[k]) /\ DayNumber(ds[k]) = first + k - 1
               /\ \A j, k \in DOMAIN ds : j < k => DateBefore(ds[j], ds[k])
               /\ \A k \in DOMAIN gen[w].assets :
                    /\ gen[w].assets[k] \in DOMAIN gen[w].data.Prices
                    /\ Len(gen[w].data.Prices[gen[w].assets[k]]) = Len(ds)

\* a goroutine built three days of data across the leap day of 2020
WitC16_AcrossLeapDay ==
    \E w \in Workers :
      /\ Built(w)
      /\ gen[w].startDate = Date(2020, 2, 28)
      /\ gen[w].data.Dates = <<Date(2020, 2, 28), Date(2020, 2, 29), Date(2020, 3, 1)>>
      /\ Len(gen[w].data.Prices["AAPL"]) = 3

\* ------------------------------------------------------------------------
\* Properties of Stats and calcMaxDrawdown
\* ------------------------------------------------------------------------
\* C14: Stats returns an empty map for a value series of fewer than 2
\* points; for a series of 2 or more it returns a map that has the keys
\* final_value, total_return, volatility and sharpe_ratio, and final_value
\* is the last recorded value.
ThmC14_StatsKeys ==
    fn = "Stats" =>
      IF Len(input.Value) < 2 THEN DOMAIN output = {}
      ELSE /\ {"final_value", "total_return", "volatility", "sharpe_ratio"}
                 \subseteq DOMAIN output
           /\ output["final_value"] = input.Value[Len(input.Value)]

\* Stats was asked about a two-point series, as a one-day Run records it
WitC14_TwoPointSeries ==
    /\ fn = "Stats"
    /\ input.Value = <<R(100), R(200)>>
    /\ Len(input.Dates) = 1
    /\ output["final_value"] = R(200)
    /\ output["total_return"] = R(100)

\* the largest of the first i values
PeakAt(values, i) ==
    CHOOSE v \in {values[j] : j \in 1..i} : \A j \in 1..i : FLe(values[j], v)

\* the drawdowns (peak_i - value_i) / peak_i of a series that are defined
Drawdowns(values) ==
    {d \in {FDiv(FSub(PeakAt(values, i), values[i]), PeakAt(values, i)) :
               i \in DOMAIN values} : ~IsNaN(d)}

NonDecreasing(values) ==
    \A i \in DOMAIN values : i > 1 => FLe(values[i - 1], values[i])

\* C15: the max drawdown of a value series is the largest of the drawdowns
\* (peak_i - value_i) / peak_i, peak_i being the largest of the values up
\* to i (0 when none is defined); it is 0 for every non-decreasing series
\* and lies in [0, 1] for every series of positive values.
ThmC15_MaxDrawdown ==
    fn = "calcMaxDrawdown" =>
      /\ output = IF Drawdowns(input) = {} THEN Zero
                  ELSE CHOOSE d \in Drawdowns(input) :
                         \A e \in Drawdowns(input) : FLe(e, d)
      /\ NonDecreasing(input) => output = Zero
      /\ (\A i \in DOMAIN input : FGt(input[i], Zero)) =>
            FLe(Zero, output) /\ FLe(output, R(1))

\* a series that falls from its second value to a quarter of it
WitC15_FallAfterNewPeak ==
    /\ fn = "calcMaxDrawdown"
    /\ input = <<R(100), R(200), R(50), R(100)>>
    /\ output = Frac(3, 4)

\* ------------------------------------------------------------------------
\* Properties of Drift, DriftCost and the sell walk
\* ------------------------------------------------------------------------
\* shares held in the lots of h
SharesHeld(h) == FSum([k \in DOMAIN h.Lots |-> h.Lots[k].Shares])

\* value of holding i and of the priced holdings of hs at the prices prc
ValueIn(hs, prc, i) == FMul(SharesHeld(hs[i]), PriceOf(prc, hs[i].Ticker))

TotalIn(hs, prc) ==
    FSum([i \in DOMAIN hs |->
             IF hs[i].Ticker \in DOMAIN prc THEN ValueIn(hs, prc, i) ELSE Zero])

\* current weight of holding i: its share of the total; 0 for a holding
\* without a price and in a portfolio worth nothing
WeightIn(hs, prc, i) ==
    IF hs[i].Ticker \in DOMAIN prc /\ ~FEq(TotalIn(hs, prc), Zero)
    THEN FDiv(ValueIn(hs, prc, i), TotalIn(hs, prc))
    ELSE Zero

DriftIn(hs, prc, i) == FSub(WeightIn(hs, prc, i), hs[i].TargetWeight)

\* C17: the drift of each holding is its current weight minus its target
\* weight, DriftCost is the sum over the holdings of the squared drifts, and
\* DriftCost is 0 when every holding is at its target weight.
ThmC17_DriftAndCost ==
    /\ fn = "Drift" =>
         LET hs == input.holdings
         IN  /\ DOMAIN output = {hs[i].Ticker : i \in DOMAIN hs}
             /\ \A i \in DOMAIN hs : output[hs[i].Ticker] = DriftIn(hs, input.prices, i)
    /\ fn = "DriftCost" =>
         LET hs == input.holdings
             prc == input.prices
         IN  /\ output = FSum([i \in DOMAIN hs |->
                                 FMul(DriftIn(hs, prc, i), DriftIn(hs, prc, i))])
             /\ (\A i \in DOMAIN hs : WeightIn(hs, prc, i) = hs[i].TargetWeight)
                   => output = Zero

\* DriftCost was asked about two priced holdings that sit at their targets
WitC17_BalancedCostsNothing ==
    /\ fn = "DriftCost"
    /\ output = Zero
    /\ \A i \in DOMAIN input.holdings :
         /\ input.holdings[i].Lots # <<>>
         /\ input.holdings[i].Ticker \in DOMAIN input.prices
         /\ FGt(input.holdings[i].TargetWeight, Zero)
         /\ WeightIn(input.holdings, input.prices, i) = input.holdings[i].TargetWeight

\* the lots of the call's holding in the configured selector's order
WalkOrder == ApplySelector(input.config.LotSelector, input.h.Lots).ret

\* shares of the first k lots of that order
SharesBefore(k) == FSum([j \in 1..k |-> WalkOrder[j].Shares])

FMin(x, y) == IF FLt(y, x) THEN y ELSE x

\* shares taken from the k-th lot: min(remaining, lot.Shares) while
\* remaining is positive, nothing afterwards
Taken(k) ==
    LET remaining == FSub(input.sharesToSell, SharesBefore(k - 1))
    IN  IF FGt(remaining, Zero) THEN FMin(remaining, WalkOrder[k].Shares) ELSE Zero

RateOf(lot) ==
    IF input.config.AsOf - lot.PurchaseDate > 365 * 24
    THEN input.config.TaxRates.LongTerm
    ELSE input.config.TaxRates.ShortTerm

\* C18: the tax cost of selling S shares is the sum over the lots, in the
\* configured selector's order, of taken * (price - CostBasis) * rate, where
\* taken is min(remaining, lot.Shares) until remaining reaches 0; lots after
\* that point contribute nothing.
ThmC18_SellWalksLotsInOrder ==
    fn = "calculateSellTaxCost" =>
      output = FSum([k \in DOMAIN WalkOrder |->
                       FMul(FMul(Taken(k), FSub(input.price, WalkOrder[k].CostBasis)),
                            RateOf(WalkOrder[k]))])

\* a sale that takes the first lot whole, half of the second, and differs
\* from what the other order of the two lots would have cost
WitC18_PartOfSecondLot ==
    /\ fn = "calculateSellTaxCost"
    /\ Len(input.h.Lots) = 2
    /\ input.sharesToSell = R(15)
    /\ WalkOrder # input.h.Lots
    /\ Taken(1) = R(10) /\ Taken(2) = R(5)
    /\ output # SellWalk(input.h.Lots, input.price, input.sharesToSell, Zero,
                         input.config)

\* tax on selling every lot of h whole at the price
WholeLotsTax(h, price, cfg) ==
    FSum([k \in DOMAIN h.Lots |-> TaxCost(h.Lots[k], price, cfg.AsOf, cfg.TaxRates)])

\* the sell Rebalance asks of the holding i of its input
RequestedShares(i) ==
    LET hs == input.holdings
        price == PriceOf(input.prices, hs[i].Ticker)
    IN  FDiv(FSub(ValueIn(hs, input.prices, i),
                  FMul(TotalIn(hs, input.prices), hs[i].TargetWeight)),
             price)

\* C19: when more shares are to be sold than the holding's lots hold, the
\* tax cost is the tax on the lots' shares only, every lot taken whole, and
\* it is an ordinary number; the trade Rebalance emits still carries the
\* requested share count.
ThmC19_UnderFillIsSilent ==
    /\ (fn = "calculateSellTaxCost" /\ FGt(input.sharesToSell, SharesHeld(input.h))) =>
         /\ output = WholeLotsTax(input.h, input.price, input.config)
         /\ IsFinite(output)
    /\ fn = "Rebalance" =>
         \A i \in DOMAIN input.holdings :
           \A k \in DOMAIN output :
             (/\ output[k].Ticker = input.holdings[i].Ticker
              /\ FGt(RequestedShares(i), SharesHeld(input.holdings[i]))) =>
               /\ output[k].Shares = FNeg(RequestedShares(i))
               /\ output[k].TaxCost =
                    WholeLotsTax(input.holdings[i],
                                 PriceOf(input.prices, input.holdings[i].Ticker),
                                 input.config)

\* Rebalance sold more VTI than its two lots hold
WitC19_SoldMoreThanHeld ==
    /\ fn = "Rebalance"
    /\ Len(input.holdings[1].Lots) = 2
    /\ "VTI" \in DOMAIN input.prices
    /\ \E k \in DOMAIN output :
         /\ output[k].Ticker = "VTI"
         /\ FGt(FNeg(output[k].Shares), SharesHeld(input.holdings[1]))
         /\ IsFinite(output[k].Shares)
         /\ output[k].TaxCost # Zero

\* ------------------------------------------------------------------------
\* Rebalance at the target
\* ------------------------------------------------------------------------
\* C20 as claimed: Rebalance emits a sell for a holding only when its diff is
\* strictly negative: a holding exactly at its target gets no trade, whatever
\* MinTradeSize >= 0 is configured, and no zero-share trade is returned.
CexC20_NoTradeAtTarget ==
    op = "Rebalance" =>
      /\ \A i \in DOMAIN holdings :
           /\ FEq(SpecDiff(i), Zero) => TradesOf(i) = {}
           /\ \A k \in TradesOf(i) : IsSell(trades[k]) => FLt(SpecDiff(i), Zero)
      /\ \A k \in DOMAIN trades : ~FEq(trades[k].Shares, Zero)

\* ------------------------------------------------------------------------
\* Shape of the trades Rebalance returns
\* ------------------------------------------------------------------------
\* a trade whose Shares and Amount are both positive or both negative, with
\* Amount = Shares * price
WellFormed(t, price) ==
    /\ \/ FGt(t.Shares, Zero) /\ FGt(t.Amount, Zero)
       \/ FLt(t.Shares, Zero) /\ FLt(t.Amount, Zero)
    /\ FEq(t.Amount, FMul(t.Shares, price))

\* C21 as claimed: every trade Rebalance returns has Shares and Amount of
\* the same sign, positive for a buy and negative for a sell, with
\* Amount = Shares * price, and every buy has TaxCost 0.
CexC21_TradesWellFormed ==
    op = "Rebalance" =>
      \A k \in DOMAIN trades :
        /\ WellFormed(trades[k], PriceOf(prices, trades[k].Ticker))
        /\ FGt(trades[k].Shares, Zero) => trades[k].TaxCost = Zero

\* ------------------------------------------------------------------------
\* Properties of the histories Run records
\* ------------------------------------------------------------------------
\* a Run has returned its result and nothing has been called since
RunDone == pc = "done"

\* Run stands between two days, or after the last: loc.i - 1 days processed
BetweenDays == pc \in {"policy", "commit"}

DayPrice(s) == p.PriceData.Prices[s][loc.i]

\* cash plus the holdings at that day's prices
PreTradeValue ==
    FAdd(loc.currCash,
         FSum([k \in DOMAIN p.Assets |->
                 FMul(QtyOf(loc.currHoldings, p.Assets[k].Symbol),
                      DayPrice(p.Assets[k].Symbol))]))

TargetQty(s) == FDiv(FMul(PreTradeValue, loc.rebWeights.m[s]), DayPrice(s))

Notional(s) == FMul(DayPrice(s), FSub(TargetQty(s), QtyOf(loc.currHoldings, s)))

\* the sum of f over the symbols of the weights the policy returned
SumOverWeights(f(_)) ==
    LET ws == SetToSeq(DOMAIN loc.rebWeights.m)
    IN  FSum([k \in DOMAIN ws |-> f(ws[k])])

\* the day's trades are being applied: the policy returned weights
Trading == pc = "trade" /\ ~loc.rebWeights.isNil /\ pc' = "value"

\* C23: on a day the policy returns weights, every symbol of those weights
\* whose target quantity totalValue * weight / price differs from the held
\* quantity is traded to the target, cash going down by price * diffQty
\* plus feeRate * |price * diffQty|, however small the trade; symbols not
\* in the weights keep their quantity.
ThmC23_TradeStep ==
    [][Trading =>
         LET cost(s) == FAdd(Notional(s), FMul(p.Fees, FAbs(Notional(s))))
         IN  /\ loc'.currCash = FSub(loc.currCash, SumOverWeights(cost))
             /\ \A s \in DOMAIN loc.rebWeights.m : loc'.currHoldings[s] = TargetQty(s)
             /\ \A s \in DOMAIN loc.currHoldings \ DOMAIN loc.rebWeights.m :
                  loc'.currHoldings[s] = loc.currHoldings[s]]_vars

\* a day with a fee on which AAPL was traded by weights that leave out MSFT,
\* of which shares were held from an earlier day
WitC23_TradedPartOfHoldings ==
    /\ pc = "value"
    /\ ~loc.rebWeights.isNil
    /\ DOMAIN loc.rebWeights.m = {"AAPL"}
    /\ FGt(p.Fees, Zero)
    /\ FGt(loc.currHoldings["MSFT"], Zero)
    /\ loc.currCash # loc.cashValues[Len(loc.cashValues)]

\* the day whose entries were appended last, and its price of a symbol
LastDay == loc.i - 1

LastPrice(s) == p.PriceData.Prices[s][LastDay]

DayProcessed == BetweenDays /\ loc.i > 1

\* C24 as claimed: the weight recorded for a symbol on a day is its held
\* quantity times that day's price over that day's recorded total value, so
\* that the recorded weights and cash / total sum to 1 when the total is
\* not zero.
CexC24_WeightsOfTotal ==
    DayProcessed =>
      LET total == loc.values[loc.i]
          weights == loc.allWeights[loc.i]
          ss == SetToSeq(DOMAIN weights)
      IN  /\ \A s \in DOMAIN weights :
               weights[s] = FDiv(FMul(loc.currHoldings[s], LastPrice(s)), total)
          /\ ~FEq(total, Zero) =>
               FAdd(FSum([k \in DOMAIN ss |-> weights[ss[k]]]),
                    FDiv(loc.currCash, total)) = R(1)

\* ------------------------------------------------------------------------
\* What the policy is shown, and when it is asked
\* ------------------------------------------------------------------------
\* Run is about to call p.Rebalancer(p, date) for day loc.i
AskingPolicy == pc = "policy"

\* C25 as claimed: the portfolio handed to the policy on a day shows the
\* state at the end of the day before: its Cash, Value, Weights and Holdings
\* are what the run has computed so far, not what they were before the run.
CexC25_PolicySeesYesterday ==
    AskingPolicy =>
      /\ p.Cash = loc.cashValues
      /\ p.Value = loc.values
      /\ p.Weights = loc.allWeights
      /\ p.Holdings = loc.currHoldings

\* a Run is about to store its histories on a portfolio that still holds
\* those of an earlier Run over the same inputs
SecondRunEnds == pc = "commit" /\ Len(p.Dates) > 0 /\ p.Dates = p.PriceData.Dates

\* C26 as claimed: two runs over equal inputs record identical Value, Cash
\* and Weights histories, in whatever order the maps are iterated.
CexC26_RunsAgree ==
    SecondRunEnds =>
      /\ loc.values = p.Value
      /\ loc.cashValues = p.Cash
      /\ loc.allWeights = p.Weights

\* ------------------------------------------------------------------------
\* The recorded total value
\* ------------------------------------------------------------------------
\* cash plus holdings at the prices of day loc.i, as the trade leaves them
PostTradeValue ==
    FAdd(loc'.currCash,
         FSum([k \in DOMAIN p.Assets |->
                 FMul(QtyOf(loc'.currHoldings, p.Assets[k].Symbol),
                      DayPrice(p.Assets[k].Symbol))]))

AbsNotional(s) == FAbs(Notional(s))

WeightsSumToOneToday ==
    LET ws == SetToSeq(DOMAIN loc.rebWeights.m)
    IN  FSum([k \in DOMAIN ws |-> loc.rebWeights.m[ws[k]]]) = R(1)

\* C27: the total value recorded for a day is the recorded cash plus the
\* held quantities, as they stand after the day's trade, at that day's
\* prices; a rebalance to weights that sum to 1 leaves the day's total
\* value where it was when the fee rate is 0 and lowers it by the fee rate
\* times the sum of the absolute traded notionals otherwise.
ThmC27_TotalValue ==
    /\ [](DayProcessed =>
            loc.values[loc.i] =
              FAdd(loc.cashValues[loc.i],
                   FSum([k \in DOMAIN p.Assets |->
                           FMul(QtyOf(loc.currHoldings, p.Assets[k].Symbol),
                                LastPrice(p.Assets[k].Symbol))])))
    /\ [][(Trading /\ WeightsSumToOneToday) =>
            /\ PostTradeValue =
                 FSub(PreTradeValue, FMul(p.Fees, SumOverWeights(AbsNotional)))
            /\ p.Fees = Zero => PostTradeValue = PreTradeValue]_vars

\* the first day's rebalance of 100 in cash at a fee of a tenth left 90
WitC27_FeeLoweredValue ==
    /\ DayProcessed
    /\ loc.i = 2
    /\ ~loc.rebWeights.isNil
    /\ p.Fees = Frac(1, 10)
    /\ loc.values = <<R(100), R(90)>>

\* ------------------------------------------------------------------------
\* The order of the day loop
\* ------------------------------------------------------------------------
InLoop == pc \in {"policy", "trade", "value"}

\* C28: Run asks the policy once about each date, in ascending index order,
\* each time before that day's trade is applied and before that day's
\* valuation is appended; the loop is left for the commit only after the
\* last date.
ThmC28_PolicyOncePerDay ==
    /\ [](pc = "policy" =>
            /\ loc.i \in 1..Len(p.PriceData.Dates)
            /\ Len(loc.dates) = loc.i - 1
            /\ Len(loc.values) = loc.i
            /\ loc.currCash = loc.cashValues[loc.i])
    /\ [](pc = "commit" => loc.i = Len(p.PriceData.Dates) + 1)
    /\ [][pc = "policy" =>
            /\ pc' = "trade"
            /\ loc' = [loc EXCEPT !.rebWeights = loc'.rebWeights]]_vars
    /\ [][pc' = "policy" =>
            \/ ~InLoop /\ loc'.i = 1
            \/ pc = "value" /\ loc'.i = loc.i + 1]_vars
    /\ [][pc' = "trade" => pc = "policy"]_vars
    /\ [][(pc' = "value" \/ (InLoop /\ InLoop' /\ loc'.currCash # loc.currCash)) =>
            /\ pc = "trade"
            /\ loc'.i = loc.i
            /\ loc'.values = loc.values]_vars
    /\ [][(InLoop /\ InLoop' /\ loc'.values # loc.values) => pc = "value"]_vars
    /\ [][pc' = "commit" => pc = "value" /\ loc.i = Len(p.PriceData.Dates)]_vars

\* the policy is being asked about the third date after a trade on the second
WitC28_AskedAboutThirdDate ==
    /\ pc = "policy"
    /\ loc.i = 3
    /\ ~loc.rebWeights.isNil
    /\ loc.cashValues[3] # loc.cashValues[2]

\* ------------------------------------------------------------------------
\* A rebalance at a total value of zero
\* ------------------------------------------------------------------------
\* C29: when the policy returns weights on a day whose total value, cash
\* plus quantity times price, is zero, the trade step changes neither cash
\* nor holdings.
CexC29_ZeroValueSkipsRebalance ==
    [][(Trading /\ PreTradeValue = Zero) =>
          /\ loc'.currCash = loc.currCash
          /\ loc'.currHoldings = loc.currHoldings]_vars

\* ------------------------------------------------------------------------
\* The price client's GetPrices
\* ------------------------------------------------------------------------
Fetching == getPrices.pc \in {"collect", "select", "done"} /\ Validation = "nil"

Returned == getPrices.pc = "done" /\ Validation = "nil"

FailedFetches == {g \in DOMAIN fetchers : fetchers[g].result.err # "nil"}

Requested == {getPrices.symbols[k] : k \in DOMAIN getPrices.symbols}

\* C30: GetPrices starts one fetch goroutine for each requested symbol and
\* returns only after it has received as many results as there are symbols,
\* in whatever order the fetches finish; it returns a nil map and the error
\* of a failed fetch when some fetch failed, and otherwise a nil error and a
\* map with the fetched prices of every requested symbol; no goroutine ever
\* has to wait to send its result, and all have sent it when GetPrices
\* returns.
ThmC30_GetPricesCollectsAll ==
    /\ Fetching =>
         /\ Len(fetchers) = Len(getPrices.symbols)
         /\ \A k \in DOMAIN fetchers : fetchers[k].sym = getPrices.symbols[k]
    /\ (getPrices.pc \in {"select", "done"} /\ Validation = "nil") =>
         /\ getPrices.collected = Len(getPrices.symbols)
         /\ resultChan = <<>>
         /\ \A g \in DOMAIN fetchers : fetchers[g].pc = "exit"
    /\ Returned =>
         IF FailedFetches # {} THEN
            /\ getPrices.ret.prices = NilMap
            /\ \E g \in FailedFetches :
                 getPrices.ret.err = ErrorFor(fetchers[g].sym, fetchers[g].result.err)
         ELSE
            /\ getPrices.ret.err = ErrorFor("", "nil")
            /\ ~getPrices.ret.prices.isNil
            /\ DOMAIN getPrices.ret.prices.m = Requested
            /\ \A s \in Requested :
                 \E g \in DOMAIN fetchers :
                    /\ fetchers[g].sym = s
                    /\ getPrices.ret.prices.m[s] = fetchers[g].result.prices
    /\ \A g \in DOMAIN fetchers :
         fetchers[g].pc = "send" => Len(resultChan) < ChanCap(getPrices.symbols)
    /\ (getPrices.pc = "collect" /\ resultChan # <<>> /\ Head(resultChan).err # "nil") =>
         Len(errorChan) < ChanCap(getPrices.symbols)

\* of two fetches MSFT's failed and AAPL's did not: the error is returned and
\* the map holding AAPL's prices is not
WitC30_SecondOfTwoFailedFirst ==
    /\ Returned
    /\ getPrices.symbols = <<"AAPL", "MSFT">>
    /\ fetchers[2].result.err = "API request failed"
    /\ fetchers[1].result.err = "nil"
    /\ DOMAIN getPrices.results = {"AAPL"}
    /\ getPrices.ret = [prices |-> NilMap, err |-> ErrorFor("MSFT", "API request failed")]
====
